---------------------------- MODULE Spec2Model ----------------------------
(***************************************************************************)
(* A model of the ScaleInsights ranking parser (scripts/utils/parser.py):  *)
(* the cell classifier parse_rank_value, the field readers _safe_str,      *)
(* _safe_numeric and _safe_int, the date-column detector and parse_excel.  *)
(*                                                                         *)
(* Python strings are sequences of one-character strings.  A cell of a     *)
(* sheet is a record [t, s, n]: t is the Python type of the cell ("None",  *)
(* "str", "int", "float", "datetime"), s its text (a str cell, or the      *)
(* str() of a datetime) or the name of a non-finite float ("nan", "inf",   *)
(* "-inf"), n its value (an int cell) or its value in tenths (a finite     *)
(* float cell).  An optional value (Python's None or a value) is a         *)
(* sequence of length 0 or 1.                                              *)
(***************************************************************************)
EXTENDS Integers, Sequences, FiniteSets, TLC

\* ------------------------------------------------------------------------
\* Bounds of the model
\* ------------------------------------------------------------------------

\* Longest free string over Alphabet handed to the cell classifier.
MaxLen == 3

\* Most data rows of a workbook, both sheets together.
MaxRows == 2

\* The longest header a call of detect_date_columns on its own is given.
MaxCols == 2

\* ------------------------------------------------------------------------
\* Python strings and numbers
\* ------------------------------------------------------------------------

None == <<>>

Some(x) == <<x>>

Digits == {"0", "1", "2", "3", "4", "5", "6", "7", "8", "9"}

DigitVal(c) ==
    CASE c = "0" -> 0 [] c = "1" -> 1 [] c = "2" -> 2 [] c = "3" -> 3
      [] c = "4" -> 4 [] c = "5" -> 5 [] c = "6" -> 6 [] c = "7" -> 7
      [] c = "8" -> 8 [] c = "9" -> 9

DigitChar(d) ==
    CASE d = 0 -> "0" [] d = 1 -> "1" [] d = 2 -> "2" [] d = 3 -> "3"
      [] d = 4 -> "4" [] d = 5 -> "5" [] d = 6 -> "6" [] d = 7 -> "7"
      [] d = 8 -> "8" [] d = 9 -> "9"

\* str.upper() and str.lower() on the letters the model uses.
UpperChar(c) ==
    CASE c = "a" -> "A" [] c = "b" -> "B" [] c = "k" -> "K" [] c = "w" -> "W"
      [] c = "e" -> "E" [] c = "f" -> "F" [] c = "i" -> "I" [] c = "n" -> "N"
      [] c = "o" -> "O" [] c = "s" -> "S" [] c = "y" -> "Y" [] c = "t" -> "T"
      [] c = "u" -> "U"
      [] OTHER -> c

LowerChar(c) ==
    CASE c = "A" -> "a" [] c = "B" -> "b" [] c = "K" -> "k" [] c = "W" -> "w"
      [] c = "E" -> "e" [] c = "F" -> "f" [] c = "I" -> "i" [] c = "N" -> "n"
      [] c = "O" -> "o" [] c = "S" -> "s" [] c = "Y" -> "y" [] c = "T" -> "t"
      [] c = "U" -> "u"
      [] OTHER -> c

Upper(s) == [i \in 1..Len(s) |-> UpperChar(s[i])]

Lower(s) == [i \in 1..Len(s) |-> LowerChar(s[i])]

IsSpace(c) == c = " "

\* str.strip(): drop the leading and the trailing whitespace.
Strip(s) ==
    LET nonsp == {i \in 1..Len(s) : ~IsSpace(s[i])}
    IN  IF nonsp = {} THEN <<>>
        ELSE LET lo == CHOOSE i \in nonsp : \A j \in nonsp : i <= j
                 hi == CHOOSE i \in nonsp : \A j \in nonsp : j <= i
             IN  SubSeq(s, lo, hi)

EndsWith(s, c) == Len(s) > 0 /\ s[Len(s)] = c

IsDigits(s) == \A i \in 1..Len(s) : s[i] \in Digits

\* The value of a digit string, saturating at Huge: Python's integers are
\* unbounded, the model keeps every value of 10^9 or more as Huge.
Huge == 1000000000

RECURSIVE DigitsVal(_)
DigitsVal(s) ==
    IF Len(s) = 0 THEN 0
    ELSE LET hi == DigitsVal(SubSeq(s, 1, Len(s) - 1))
         IN  IF hi >= Huge \div 10 THEN Huge
             ELSE hi * 10 + DigitVal(s[Len(s)])

\* str(n) of an int.
RECURSIVE NatStr(_)
NatStr(n) ==
    IF n < 10 THEN <<DigitChar(n)>>
    ELSE Append(NatStr(n \div 10), DigitChar(n % 10))

IntStr(n) == IF n < 0 THEN <<"-">> \o NatStr(-n) ELSE NatStr(n)

\* ------------------------------------------------------------------------
\* Cells
\* ------------------------------------------------------------------------

NoneCell == [t |-> "None", s |-> <<>>, n |-> 0]

StrCell(s) == [t |-> "str", s |-> s, n |-> 0]

IntCell(n) == [t |-> "int", s |-> <<>>, n |-> n]

\* A finite float, given in tenths: FloatCell(125) is 12.5.
FloatCell(tenths) == [t |-> "float", s |-> <<>>, n |-> tenths]

NaNCell == [t |-> "float", s |-> <<"n", "a", "n">>, n |-> 0]

InfCell == [t |-> "float", s |-> <<"i", "n", "f">>, n |-> 0]

NegInfCell == [t |-> "float", s |-> <<"-", "i", "n", "f">>, n |-> 0]

\* isinstance(val, float) and (val != val)
IsNaN(val) == val.t = "float" /\ val.s = <<"n", "a", "n">>

\* str(val)
Str(val) ==
    CASE val.t = "None" -> <<"N", "o", "n", "e">>
      [] val.t = "str" -> val.s
      [] val.t = "int" -> IntStr(val.n)
      [] val.t = "datetime" -> val.s
      [] val.t = "float" ->
           IF val.s # <<>> THEN val.s
           ELSE LET a == IF val.n < 0 THEN -val.n ELSE val.n
                IN  (IF val.n < 0 THEN <<"-">> ELSE <<>>)
                    \o NatStr(a \div 10) \o <<".">> \o <<DigitChar(a % 10)>>

\* ------------------------------------------------------------------------
\* float(): a parsed float is [ok, kind, neg, ip, fp]: ok is FALSE when
\* float() raises ValueError; kind is "fin", "inf" or "nan"; neg the sign;
\* ip the integer part (saturating at Huge) and fp the fractional digits
\* without trailing zeros.
\* ------------------------------------------------------------------------

BadFloat == [ok |-> FALSE, kind |-> "fin", neg |-> FALSE, ip |-> 0, fp |-> <<>>]

FinFloat(neg, ip, fp) == [ok |-> TRUE, kind |-> "fin", neg |-> neg, ip |-> ip, fp |-> fp]

InfFloat(neg) == [ok |-> TRUE, kind |-> "inf", neg |-> neg, ip |-> 0, fp |-> <<>>]

NaNFloat == [ok |-> TRUE, kind |-> "nan", neg |-> FALSE, ip |-> 0, fp |-> <<>>]

RECURSIVE StripLeadingZeros(_)
StripLeadingZeros(s) ==
    IF Len(s) > 0 /\ s[1] = "0" THEN StripLeadingZeros(Tail(s)) ELSE s

RECURSIVE StripTrailingZeros(_)
StripTrailingZeros(s) ==
    IF Len(s) > 0 /\ s[Len(s)] = "0"
    THEN StripTrailingZeros(SubSeq(s, 1, Len(s) - 1)) ELSE s

Zeros(k) == [i \in 1..k |-> "0"]

\* The leading digits of the largest finite double, 1.7976931348623157e308.
DblMaxDigits == <<"1", "7", "9", "7", "6", "9", "3", "1", "3">>

RECURSIVE LexGreater(_, _)
LexGreater(a, b) ==
    IF Len(a) = 0 \/ Len(b) = 0 THEN FALSE
    ELSE IF DigitVal(a[1]) # DigitVal(b[1]) THEN DigitVal(a[1]) > DigitVal(b[1])
    ELSE LexGreater(Tail(a), Tail(b))

\* The decimal literal with integer digits mi, fraction digits mf and decimal
\* exponent e: the value 0.d * 10^p of its significant digits d.
DecimalValue(neg, mi, mf, e) ==
    LET all == mi \o mf
        d   == StripLeadingZeros(all)
        p   == Len(mi) + e - (Len(all) - Len(d))
    IN  IF Len(d) = 0 THEN FinFloat(neg, 0, <<>>)
        ELSE IF p > 309 \/ (p = 309 /\ LexGreater(d, DblMaxDigits)) THEN InfFloat(neg)
        ELSE IF p > 9 THEN FinFloat(neg, Huge, <<>>)
        ELSE IF p <= 0 THEN
             FinFloat(neg, 0, IF -p > 323 THEN <<>> ELSE StripTrailingZeros(Zeros(-p) \o d))
        ELSE IF p >= Len(d) THEN FinFloat(neg, DigitsVal(d \o Zeros(p - Len(d))), <<>>)
        ELSE FinFloat(neg, DigitsVal(SubSeq(d, 1, p)),
                      StripTrailingZeros(SubSeq(d, p + 1, Len(d))))

\* digits [ "." digits ], with at least one digit.
Mantissa(neg, m, e) ==
    LET dots == {i \in 1..Len(m) : m[i] = "."}
    IN  IF dots = {} THEN
             IF Len(m) > 0 /\ IsDigits(m) THEN DecimalValue(neg, m, <<>>, e) ELSE BadFloat
        ELSE LET k  == CHOOSE i \in dots : \A j \in dots : i <= j
                 mi == SubSeq(m, 1, k - 1)
                 mf == SubSeq(m, k + 1, Len(m))
             IN  IF IsDigits(mi) /\ IsDigits(mf) /\ Len(mi) + Len(mf) > 0
                 THEN DecimalValue(neg, mi, mf, e) ELSE BadFloat

\* mantissa [ "e" [sign] digits ]
Decimal(neg, r) ==
    LET es == {i \in 1..Len(r) : r[i] = "e"}
    IN  IF es = {} THEN Mantissa(neg, r, 0)
        ELSE LET k    == CHOOSE i \in es : \A j \in es : i <= j
                 m    == SubSeq(r, 1, k - 1)
                 x    == SubSeq(r, k + 1, Len(r))
                 xneg == Len(x) > 0 /\ x[1] = "-"
                 xd   == IF Len(x) > 0 /\ x[1] \in {"+", "-"} THEN Tail(x) ELSE x
             IN  IF Len(xd) = 0 \/ ~IsDigits(xd) THEN BadFloat
                 ELSE LET xv == IF DigitsVal(xd) > 1000 THEN 1000 ELSE DigitsVal(xd)
                      IN  Mantissa(neg, m, IF xneg THEN -xv ELSE xv)

\* float(s) of a str: whitespace is stripped, the letters are case-insensitive.
ParseFloat(s0) ==
    LET s   == Lower(Strip(s0))
        neg == Len(s) > 0 /\ s[1] = "-"
        r   == IF Len(s) > 0 /\ s[1] \in {"+", "-"} THEN Tail(s) ELSE s
    IN  IF r = <<"i", "n", "f">> \/ r = <<"i", "n", "f", "i", "n", "i", "t", "y">>
          THEN InfFloat(neg)
        ELSE IF r = <<"n", "a", "n">> THEN NaNFloat
        ELSE Decimal(neg, r)

\* float(val) of a cell: a str is parsed, an int or a float is the value that
\* its str() writes; any other type raises TypeError.
PyFloat(val) ==
    IF val.t \in {"str", "int", "float"} THEN ParseFloat(Str(val)) ELSE BadFloat

\* int(f) of a float: [err, v]; int(nan) raises ValueError and int(inf)
\* raises OverflowError.
PyInt(f) ==
    CASE f.kind = "nan" -> [err |-> "ValueError", v |-> 0]
      [] f.kind = "inf" -> [err |-> "OverflowError", v |-> 0]
      [] OTHER -> [err |-> "", v |-> IF f.neg THEN -f.ip ELSE f.ip]

\* f > 0 of a float.
FloatPositive(f) ==
    /\ f.kind # "nan"
    /\ ~f.neg
    /\ f.kind = "inf" \/ f.ip > 0 \/ f.fp # <<>>

\* ------------------------------------------------------------------------
\* The helpers of parser.py
\* ------------------------------------------------------------------------

\* _safe_str(val): the trimmed text of a cell, '' for None and NaN.
_safe_str(val) ==
    IF val.t = "None" THEN <<>>
    ELSE IF IsNaN(val) THEN <<>>
    ELSE Strip(Str(val))

\* _safe_numeric(val): [err, v] with v an optional float.
FloatOrDefault(f) ==
    IF f.ok THEN [err |-> "", v |-> Some(f)] ELSE [err |-> "", v |-> None]

_safe_numeric(val) ==
    IF val.t = "None" THEN [err |-> "", v |-> None]
    ELSE IF IsNaN(val) THEN [err |-> "", v |-> None]
    ELSE FloatOrDefault(PyFloat(val))

\* _safe_int(val): [err, v] with v an optional int; OverflowError is not
\* among the caught exceptions.
IntOrDefault(f) ==
    IF ~f.ok THEN [err |-> "", v |-> None]
    ELSE LET i == PyInt(f)
         IN  IF i.err = "" THEN [err |-> "", v |-> Some(i.v)]
             ELSE IF i.err = "ValueError" THEN [err |-> "", v |-> None]
             ELSE [err |-> i.err, v |-> None]

_safe_int(val) ==
    IF val.t = "None" THEN [err |-> "", v |-> None]
    ELSE IF IsNaN(val) THEN [err |-> "", v |-> None]
    ELSE IntOrDefault(PyFloat(val))

\* The range of displayed rank positions.
MinRank == 1

MaxRank == 306

\* RankOfFloat with the upper end of the range at the marker value 97.
RankOfFloat_UpTo97(f) ==
    IF ~f.ok THEN [err |-> "", rank |-> None, oor |-> FALSE]
    ELSE LET i == PyInt(f)
         IN  IF i.err = "ValueError" THEN [err |-> "", rank |-> None, oor |-> FALSE]
             ELSE IF i.err # "" THEN [err |-> i.err, rank |-> None, oor |-> FALSE]
             ELSE IF MinRank <= i.v /\ i.v <= 97
               THEN [err |-> "", rank |-> Some(i.v), oor |-> FALSE]
             ELSE [err |-> "", rank |-> None, oor |-> TRUE]

\* Lines 91-98: rank = int(float(val_str)) and the range of a rank, f being
\* float(val_str).  [err, rank, oor]: err names an exception that leaves the
\* function, rank is an optional int.
RankOfFloat(f) ==
    IF ~f.ok THEN [err |-> "", rank |-> None, oor |-> FALSE]
    ELSE LET i == PyInt(f)
         IN  IF i.err = "ValueError" THEN [err |-> "", rank |-> None, oor |-> FALSE]
             ELSE IF i.err # "" THEN [err |-> i.err, rank |-> None, oor |-> FALSE]
             ELSE IF MinRank <= i.v /\ i.v <= MaxRank
               THEN [err |-> "", rank |-> Some(i.v), oor |-> FALSE]
             ELSE [err |-> "", rank |-> None, oor |-> TRUE]

\* parse_rank_value(val): [err, rank, oor].
parse_rank_value(val) ==
    IF val.t = "None" \/ (val.t = "str" /\ val.s = <<>>)
      THEN [err |-> "", rank |-> None, oor |-> FALSE]
    ELSE IF IsNaN(val) THEN [err |-> "", rank |-> None, oor |-> FALSE]
    ELSE LET val_str == Strip(Str(val))
         IN  IF val_str = <<>> THEN [err |-> "", rank |-> None, oor |-> FALSE]
             ELSE IF EndsWith(val_str, "+") THEN [err |-> "", rank |-> None, oor |-> TRUE]
             ELSE RankOfFloat(ParseFloat(val_str))


\* ------------------------------------------------------------------------
\* The header row
\* ------------------------------------------------------------------------

\* The text of a column name is kept as one symbol of a string.
ASIN == <<"ASIN">>

SKU == <<"SKU">>

Title == <<"Title">>

Keyword == <<"Keyword">>

Tracked == <<"Tracked">>

Sales == <<"Sales">>

ACOS == <<"ACOS">>

Conversion == <<"Conversion">>

Spent == <<"Spent">>

Orders == <<"Orders">>

Units == <<"Units">>

Clicks == <<"Clicks">>

QueryVolume == <<"Query Volume">>

ConversionDelta == <<"Conversion Delta">>

MarketConversion == <<"Market Conversion">>

AsinConversion == <<"Asin Conversion">>

PurchaseShare == <<"Purchase Share">>

\* The 17 fixed columns of every file.
FIXED_COLUMNS ==
    <<ASIN, SKU, Title, Keyword, Tracked, Sales, ACOS, Conversion, Spent, Orders,
      Units, Clicks, QueryVolume, ConversionDelta, MarketConversion, AsinConversion,
      PurchaseShare>>

\* FIXED_COLUMNS[:5], the columns a header must have.
RequiredColumns == SubSeq(FIXED_COLUMNS, 1, 5)

\* DATE_PATTERN = ^\d{4}-\d{2}-\d{2}$
DATE_PATTERN(s) ==
    /\ Len(s) = 10
    /\ \A i \in {1, 2, 3, 4, 6, 7, 9, 10} : s[i] \in Digits
    /\ s[5] = "-"
    /\ s[8] = "-"

\* s[:k]
Prefix(s, k) == SubSeq(s, 1, IF Len(s) < k THEN Len(s) ELSE k)

\* A timestamp object: its str() is "YYYY-MM-DD HH:MM:SS", kept in s.
TimestampCell(s) == [t |-> "datetime", s |-> s, n |-> 0]

\* col.strftime('%Y-%m-%d') of a timestamp object.
Strftime(col) == Prefix(col.s, 10)

\* The normalized date of one header cell, the text after the date kept.
NormalizedDate_Untrimmed(col) ==
    LET col_str == Strip(Str(col))
    IN  IF DATE_PATTERN(col_str) THEN Some(col_str)
        ELSE IF col.t = "datetime" THEN Some(Strftime(col))
        ELSE IF Len(col_str) >= 10 /\ DATE_PATTERN(Prefix(col_str, 10))
          THEN Some(col_str)
        ELSE None

\* The normalized date of one header cell, None when it is no date column.
NormalizedDate(col) ==
    LET col_str == Strip(Str(col))
    IN  IF DATE_PATTERN(col_str) THEN Some(col_str)
        ELSE IF col.t = "datetime" THEN Some(Strftime(col))
        ELSE IF Len(col_str) >= 10 /\ DATE_PATTERN(Prefix(col_str, 10))
          THEN Some(Prefix(col_str, 10))
        ELSE None

\* dict[key] = value on a dict kept as a function.
DictPut(d, key, value) ==
    [k \in DOMAIN d \cup {key} |-> IF k = key THEN value ELSE d[k]]

EmptyDict == [k \in {} |-> 0]

\* detect_date_columns(columns): [date_strs, col_map].
RECURSIVE detect_date_columns(_)
detect_date_columns(columns) ==
    IF Len(columns) = 0 THEN [date_strs |-> <<>>, col_map |-> EmptyDict]
    ELSE LET before == detect_date_columns(SubSeq(columns, 1, Len(columns) - 1))
             col    == columns[Len(columns)]
             norm   == NormalizedDate(col)
         IN  IF norm = None THEN before
             ELSE [date_strs |-> Append(before.date_strs, norm[1]),
                   col_map   |-> DictPut(before.col_map, norm[1], col)]

\* date_strs = [], col_map = {}
NotDetected == [date_strs |-> <<>>, col_map |-> EmptyDict]

\* The order of Python's str comparison on the characters of a date.
CharOrd(c) ==
    CASE c = " " -> 32 [] c = "-" -> 45 [] c = ":" -> 58
      [] c \in Digits -> 48 + DigitVal(c)
      [] OTHER -> 100

RECURSIVE StrLess(_, _)
StrLess(a, b) ==
    IF Len(b) = 0 THEN FALSE
    ELSE IF Len(a) = 0 THEN TRUE
    ELSE IF CharOrd(a[1]) # CharOrd(b[1]) THEN CharOrd(a[1]) < CharOrd(b[1])
    ELSE StrLess(Tail(a), Tail(b))

\* Insert x after the elements not greater than it (sorted() is stable).
RECURSIVE SortedInsert(_, _)
SortedInsert(sq, x) ==
    IF Len(sq) = 0 THEN <<x>>
    ELSE IF StrLess(x, sq[1]) THEN <<x>> \o sq
    ELSE <<sq[1]>> \o SortedInsert(Tail(sq), x)

\* sorted(date_columns)
RECURSIVE Sorted(_)
Sorted(sq) ==
    IF Len(sq) = 0 THEN <<>>
    ELSE SortedInsert(Sorted(SubSeq(sq, 1, Len(sq) - 1)), sq[Len(sq)])

\* headers = [str(h).strip() if h is not None else '' for h in primary_data[0]]
HeaderStrings(row) ==
    [i \in 1..Len(row) |-> IF row[i].t = "None" THEN <<>> ELSE Strip(Str(row[i]))]

\* col_indices[h] = i for i, h in enumerate(headers): the last position wins.
ColumnIndex(hs) ==
    [h \in {hs[i] : i \in 1..Len(hs)} |->
        (CHOOSE i \in 1..Len(hs) : hs[i] = h /\ \A j \in 1..Len(hs) : hs[j] = h => j <= i) - 1]

\* The date columns added to col_indices through the original header text.
WithDateColumns(ci, col_map) ==
    LET added == {d \in DOMAIN col_map : d \notin DOMAIN ci /\ Str(col_map[d]) \in DOMAIN ci}
    IN  [k \in DOMAIN ci \cup added |-> IF k \in DOMAIN ci THEN ci[k] ELSE ci[Str(col_map[k])]]

\* col_indices.get(name, default)
Get(ci, name, default) == IF name \in DOMAIN ci THEN ci[name] ELSE default

\* row[idx]: [err, v]; a position past the end of the row raises IndexError.
RowGet(row, idx) ==
    IF idx < Len(row) THEN [err |-> "", v |-> row[idx + 1]]
    ELSE [err |-> "IndexError", v |-> NoneCell]


\* ------------------------------------------------------------------------
\* State
\* ------------------------------------------------------------------------

VARIABLES
    pc,                \* the position of the running call
    val,               \* parse_rank_value: the cell it is called with
    ret,               \* parse_rank_value: what the call returned or raised
    has_organic,       \* parse_excel: 'Organic' in sheet_names
    has_sponsored,     \* parse_excel: 'Sponsored' in sheet_names
    organic_data,      \* the rows of the Organic sheet (<<>> when it is absent)
    sponsored_data,    \* the rows of the Sponsored sheet (<<>> when it is absent)
    marketplace_id,
    import_id,
    clock,             \* what datetime.utcnow() reads
    headers,
    col_indices,
    date_columns,
    date_col_map,
    sorted_dates,
    row_i,             \* rows of the running pass already processed
    keyword_map,       \* dict in insertion order: a sequence of [key, rec]
    keyword_records,
    filtered_count,
    kept_keyword_keys,
    merged_ranks,
    organic_count,
    sponsored_count,
    rank_filtered,
    stats,
    error,             \* the exception that left parse_excel, "" when none
    earlier,           \* what an earlier call on the same arguments returned
    columns,           \* detect_date_columns: the header it is called with
    detected,          \* detect_date_columns: what the call returned
    portal,            \* the files the ScaleInsights site may answer a download with
    dl_pc,             \* download_rankings: the position of the call
    max_retries,
    attempt,
    logged_in,         \* ScaleInsightsScraper._logged_in
    gets,              \* download_rankings: requests of the download URL so far
    dl_failed,         \* download_rankings: attempts that ended in the except clause
    waited,            \* download_rankings: seconds slept between attempts
    dl_ret,            \* download_rankings: how the call ended and with what
    c_pc,              \* process_country: the position of the call
    country,
    dry_run,
    file_bytes,
    result,
    import_rec,        \* the status of the data_imports row of the call, "none" before it
    calls,             \* the functions of scripts/utils/db.py the call has called
    kw_i,              \* upsert_keywords: the offset of the next batch
    kw_count,
    keyword_id_map,
    rank_records,
    skipped,
    rank_i,            \* upsert_ranks: the offset of the next batch
    rank_count,
    exc,               \* process_country: the exception on its way out, "" when none
    m_pc,              \* main: the position of the run
    args,              \* main: the command line and the environment
    countries,
    m_i,               \* main: countries of the list already processed
    results,
    alerts,            \* the alerts sent, in order
    total_keywords,
    total_ranks,
    m_waited,          \* main: seconds slept between countries
    summary,           \* what send_summary was called with, None before
    exit_code          \* the exit status of the process, None while it runs

classifyVars == <<val, ret>>

inputVars == <<has_organic, has_sponsored, organic_data, sponsored_data,
               marketplace_id, import_id>>

schemaVars == <<headers, col_indices, date_columns, date_col_map, sorted_dates>>

keywordVars == <<keyword_map, keyword_records, filtered_count, kept_keyword_keys>>

rankVars == <<merged_ranks, organic_count, sponsored_count, rank_filtered, stats>>

\* The state outside the running call of parse_excel.
detectVars == <<columns, detected>>

\* The state of ScaleInsightsScraper.download_rankings.
downloadVars == <<portal, dl_pc, max_retries, attempt, logged_in, gets, dl_failed, waited,
                  dl_ret>>

\* upsert_keywords to upsert_ranks in process_country.
persistVars == <<kw_i, kw_count, keyword_id_map, rank_records, skipped, rank_i, rank_count>>

\* The state of process_country.
countryVars == <<c_pc, country, dry_run, file_bytes, result, import_rec, calls, persistVars,
                 exc>>

\* The state of main.
mainVars == <<m_pc, args, countries, m_i, results, alerts, total_keywords, total_ranks,
              m_waited, summary, exit_code>>

pipeVars == <<downloadVars, countryVars, mainVars>>

outerVars == <<earlier, detectVars, pipeVars>>

vars == <<pc, classifyVars, inputVars, outerVars, clock, schemaVars, row_i, keywordVars,
          rankVars, error>>

\* ------------------------------------------------------------------------
\* parse_excel: validation of the workbook
\* ------------------------------------------------------------------------

\* raise: the call ends with the exception and returns nothing.
Raise(e) ==
    /\ pc' = "raised"
    /\ error' = e

\* primary_data = organic_data if organic_data else sponsored_data
primary_data == IF organic_data # <<>> THEN organic_data ELSE sponsored_data

\* Lines 175-183: at least one of the two sheets must exist.
ValidateSheets ==
    /\ pc = "open"
    /\ IF ~has_organic /\ ~has_sponsored
         THEN Raise("ValueError: Excel file has no 'Organic' or 'Sponsored' sheet")
         ELSE pc' = "primary" /\ error' = error
    /\ UNCHANGED <<classifyVars, inputVars, outerVars, clock, schemaVars, row_i, keywordVars, rankVars>>

\* Lines 199-202: the primary sheet needs a header and a data row.
ValidatePrimary ==
    /\ pc = "primary"
    /\ IF primary_data = <<>> \/ Len(primary_data) < 2
         THEN Raise("ValueError: Primary sheet is empty or has no data rows")
         ELSE pc' = "headers" /\ error' = error
    /\ UNCHANGED <<classifyVars, inputVars, outerVars, clock, schemaVars, row_i, keywordVars, rankVars>>

\* missing_cols over the identity columns only, Tracked left out.
MissingCols_NoTracked(ci) ==
    SelectSeq(SubSeq(FIXED_COLUMNS, 1, 4), LAMBDA fc : fc \notin DOMAIN ci)

\* missing_cols: the required columns that are not in col_indices.
MissingCols(ci) ==
    SelectSeq(RequiredColumns, LAMBDA fc : fc \notin DOMAIN ci)

\* Lines 204-218: the header strings, the column index, the required columns.
ResolveSchema ==
    /\ pc = "headers"
    /\ LET hs == HeaderStrings(primary_data[1])
           ci == ColumnIndex(hs)
       IN  /\ headers' = hs
           /\ col_indices' = ci
           /\ IF MissingCols(ci) # <<>>
                THEN Raise("ValueError: Missing required columns")
                ELSE pc' = "dates" /\ error' = error
    /\ UNCHANGED <<classifyVars, inputVars, outerVars, clock, date_columns, date_col_map, sorted_dates,
                   row_i, keywordVars, rankVars>>

\* Lines 221-237: the date columns of the header.
DetectDates ==
    /\ pc = "dates"
    /\ LET found == detect_date_columns([i \in 1..Len(headers) |-> StrCell(headers[i])])
       IN  /\ date_columns' = found.date_strs
           /\ date_col_map' = found.col_map
           /\ IF found.date_strs = <<>>
                THEN /\ Raise("ValueError: No date columns found in headers")
                     /\ UNCHANGED <<col_indices, sorted_dates>>
                ELSE /\ col_indices' = WithDateColumns(col_indices, found.col_map)
                     /\ sorted_dates' = Sorted(found.date_strs)
                     /\ pc' = "keywords"
                     /\ error' = error
    /\ row_i' = 0
    /\ UNCHANGED <<classifyVars, inputVars, outerVars, clock, headers, keywordVars, rankVars>>


\* ------------------------------------------------------------------------
\* parse_excel, step 1: the keyword records of both sheets
\* ------------------------------------------------------------------------

\* sheet_data[1:], and nothing for a sheet that is absent or empty.
DataRows(sheet_data) == IF sheet_data = <<>> THEN <<>> ELSE Tail(sheet_data)

SheetWork(sheet_data, sheet_name) ==
    [i \in 1..Len(DataRows(sheet_data)) |->
        [sheet |-> sheet_name, row |-> DataRows(sheet_data)[i]]]

\* Lines 243-253: the Sponsored rows first, then the Organic rows.
KeywordWork == SheetWork(sponsored_data, "Sponsored") \o SheetWork(organic_data, "Organic")

\* Lines 314-324: the Organic rows first, then the Sponsored rows.
RankWork == SheetWork(organic_data, "Organic") \o SheetWork(sponsored_data, "Sponsored")

\* key in keyword_map
HasKey(km, key) == \E i \in 1..Len(km) : km[i].key = key

\* A known key keeps its record.
MapPut_KeepOld(km, key, rec) ==
    IF HasKey(km, key) THEN km ELSE Append(km, [key |-> key, rec |-> rec])

\* keyword_map[key] = rec: a new key is appended, a known key keeps its place.
MapPut(km, key, rec) ==
    IF HasKey(km, key)
      THEN [i \in 1..Len(km) |-> IF km[i].key = key THEN [key |-> key, rec |-> rec] ELSE km[i]]
      ELSE Append(km, [key |-> key, rec |-> rec])

\* The first exception raised by a sequence of evaluations.
RECURSIVE FirstErr(_)
FirstErr(errs) ==
    IF Len(errs) = 0 THEN ""
    ELSE IF errs[1] # "" THEN errs[1]
    ELSE FirstErr(Tail(errs))

\* _safe_str(row[col_indices.get(name, default)])
StrField(row, ci, name, default) ==
    LET g == RowGet(row, Get(ci, name, default))
    IN  [err |-> g.err, v |-> IF g.err = "" THEN _safe_str(g.v) ELSE <<>>]

\* _safe_numeric(row[col_indices.get(name, default)])
NumField(row, ci, name, default) ==
    LET g == RowGet(row, Get(ci, name, default))
    IN  IF g.err # "" THEN [err |-> g.err, v |-> None] ELSE _safe_numeric(g.v)

\* _safe_int(row[col_indices.get(name, default)])
IntField(row, ci, name, default) ==
    LET g == RowGet(row, Get(ci, name, default))
    IN  IF g.err # "" THEN [err |-> g.err, v |-> None] ELSE _safe_int(g.v)

\* s or None
OrNone(s) == IF s = <<>> THEN None ELSE Some(s)

\* The storage limit of a title.
TitleLimit == 500

\* The first row of a key wins, whatever its sheet.
SkipRow_AnySheet(is_organic, key, km) == HasKey(km, key)

\* Lines 262-265: a Sponsored row does not replace a record that exists.
SkipRow(is_organic, key, km) == ~is_organic /\ HasKey(km, key)

\* The key of a row, the letter case kept.
EntityKey_Exact(asin, keyword_text) == <<asin, keyword_text>>

\* Line 260: the key of a row.
EntityKey(asin, keyword_text) == <<Upper(asin), Lower(keyword_text)>>

\* The dict of one row with the end of the metrics period read off the clock.
Record_PeriodEndsNow(tracked_val, sku, title, sales, acos, conversion, spent, orders, units, clicks, query_volume, conversion_delta, market_conversion, asin_conversion, purchase_share, asin, keyword_text, dates, mkt, imp, now) ==
    [err |-> FirstErr(<<tracked_val.err, sku.err, title.err, sales.err, acos.err,
                        conversion.err, spent.err, orders.err, units.err, clicks.err,
                        query_volume.err, conversion_delta.err, market_conversion.err,
                        asin_conversion.err, purchase_share.err>>),
     rec |-> [marketplace_id       |-> mkt,
              child_asin           |-> asin,
              keyword              |-> keyword_text,
              sku                  |-> OrNone(sku.v),
              title                |-> OrNone(Prefix(title.v, TitleLimit)),
              tracked              |-> Lower(tracked_val.v) = <<"y", "e", "s">>,
              sales                |-> sales.v,
              acos                 |-> acos.v,
              conversion           |-> conversion.v,
              spent                |-> spent.v,
              orders               |-> orders.v,
              units                |-> units.v,
              clicks               |-> clicks.v,
              query_volume         |-> query_volume.v,
              conversion_delta     |-> conversion_delta.v,
              market_conversion    |-> market_conversion.v,
              asin_conversion      |-> asin_conversion.v,
              purchase_share       |-> purchase_share.v,
              metrics_period_start |-> IF dates # <<>> THEN Some(dates[1]) ELSE None,
              metrics_period_end   |-> Some(NatStr(now)),
              import_id            |-> imp,
              updated_at           |-> now]]

\* Lines 268-291: the dict of one row, from the fields read in this order.
Record(tracked_val, sku, title, sales, acos, conversion, spent, orders, units, clicks, query_volume, conversion_delta, market_conversion, asin_conversion, purchase_share, asin, keyword_text, dates, mkt, imp, now) ==
    [err |-> FirstErr(<<tracked_val.err, sku.err, title.err, sales.err, acos.err,
                        conversion.err, spent.err, orders.err, units.err, clicks.err,
                        query_volume.err, conversion_delta.err, market_conversion.err,
                        asin_conversion.err, purchase_share.err>>),
     rec |-> [marketplace_id       |-> mkt,
              child_asin           |-> asin,
              keyword              |-> keyword_text,
              sku                  |-> OrNone(sku.v),
              title                |-> OrNone(Prefix(title.v, TitleLimit)),
              tracked              |-> Lower(tracked_val.v) = <<"y", "e", "s">>,
              sales                |-> sales.v,
              acos                 |-> acos.v,
              conversion           |-> conversion.v,
              spent                |-> spent.v,
              orders               |-> orders.v,
              units                |-> units.v,
              clicks               |-> clicks.v,
              query_volume         |-> query_volume.v,
              conversion_delta     |-> conversion_delta.v,
              market_conversion    |-> market_conversion.v,
              asin_conversion      |-> asin_conversion.v,
              purchase_share       |-> purchase_share.v,
              metrics_period_start |-> IF dates # <<>> THEN Some(dates[1]) ELSE None,
              metrics_period_end   |-> IF dates # <<>> THEN Some(dates[Len(dates)]) ELSE None,
              import_id            |-> imp,
              updated_at           |-> now]]

\* Lines 267-291: the record of one row, [err, rec].
kw_record(row, ci, asin, keyword_text, dates, mkt, imp, now) ==
    Record(StrField(row, ci, Tracked, 4),
           StrField(row, ci, SKU, 1),
           StrField(row, ci, Title, 2),
           NumField(row, ci, Sales, 5),
           NumField(row, ci, ACOS, 6),
           NumField(row, ci, Conversion, 7),
           NumField(row, ci, Spent, 8),
           IntField(row, ci, Orders, 9),
           IntField(row, ci, Units, 10),
           IntField(row, ci, Clicks, 11),
           IntField(row, ci, QueryVolume, 12),
           NumField(row, ci, ConversionDelta, 13),
           NumField(row, ci, MarketConversion, 14),
           NumField(row, ci, AsinConversion, 15),
           NumField(row, ci, PurchaseShare, 16),
           asin, keyword_text, dates, mkt, imp, now)

\* Lines 268-291: keyword_map[key] = the record of the row, datetime.utcnow()
\* having moved on since the last record.
StoreRecord(key, built) ==
    IF built.err # ""
      THEN /\ Raise(built.err)
           /\ UNCHANGED <<row_i, keyword_map, clock>>
      ELSE /\ keyword_map' = MapPut(keyword_map, key, built.rec)
           /\ clock' = clock + 1
           /\ row_i' = row_i + 1
           /\ UNCHANGED <<pc, error>>

\* Lines 253-291: one row of the keyword pass.
KeywordRow ==
    /\ pc = "keywords"
    /\ row_i < Len(KeywordWork)
    /\ LET w            == KeywordWork[row_i + 1]
           asin         == StrField(w.row, col_indices, ASIN, 0)
           keyword_text == StrField(w.row, col_indices, Keyword, 3)
           key          == EntityKey(asin.v, keyword_text.v)
       IN  IF FirstErr(<<asin.err, keyword_text.err>>) # ""
             THEN /\ Raise(FirstErr(<<asin.err, keyword_text.err>>))
                  /\ UNCHANGED <<row_i, keyword_map, clock>>
           ELSE IF asin.v = <<>> \/ keyword_text.v = <<>>
             THEN /\ row_i' = row_i + 1
                  /\ UNCHANGED <<pc, error, keyword_map, clock>>
           ELSE IF SkipRow(w.sheet = "Organic", key, keyword_map)
             THEN /\ row_i' = row_i + 1
                  /\ UNCHANGED <<pc, error, keyword_map, clock>>
           ELSE StoreRecord(key, kw_record(w.row, col_indices, asin.v, keyword_text.v,
                                           sorted_dates, marketplace_id, import_id, clock + 1))
    /\ UNCHANGED <<classifyVars, inputVars, outerVars, schemaVars, keyword_records, filtered_count,
                   kept_keyword_keys, rankVars>>

\* The retention rule with any given spend counted, a spend of 0 included.
Retained_AnySpend(kw) ==
    kw.tracked \/ kw.spent # None

\* Line 297: the retention rule.
Retained(kw) ==
    kw.tracked \/ (kw.spent # None /\ FloatPositive(kw.spent[1]))

\* Lines 293-307: the retention filter, once the keyword pass is over.
FilterKeywords ==
    /\ pc = "keywords"
    /\ row_i = Len(KeywordWork)
    /\ LET all_keywords == [i \in 1..Len(keyword_map) |-> keyword_map[i].rec]
           kept         == SelectSeq(all_keywords, Retained)
       IN  /\ keyword_records' = kept
           /\ filtered_count' = Len(all_keywords) - Len(kept)
           /\ kept_keyword_keys' =
                {<<Upper(kept[i].child_asin), Lower(kept[i].keyword)>> : i \in 1..Len(kept)}
    /\ pc' = "ranks"
    /\ row_i' = 0
    /\ UNCHANGED <<classifyVars, inputVars, outerVars, clock, schemaVars, keyword_map, rankVars, error>>


\* ------------------------------------------------------------------------
\* parse_excel, step 2: the merged rank data of both sheets
\* ------------------------------------------------------------------------

\* Lines 333-336: the position of a date column, None when it has none.
DateIdx(ci, col_map, date_col) ==
    IF date_col \in DOMAIN ci THEN Some(ci[date_col])
    ELSE LET original_col == IF date_col \in DOMAIN col_map
                               THEN Str(col_map[date_col]) ELSE date_col
         IN  IF original_col \in DOMAIN ci THEN Some(ci[original_col]) ELSE None

\* Lines 349-357: a new record of merged_ranks.
NewRank(asin, keyword_text, date_col) ==
    [asin                   |-> asin,
     keyword                |-> keyword_text,
     date                   |-> date_col,
     organic_rank           |-> None,
     organic_out_of_range   |-> FALSE,
     sponsored_rank         |-> None,
     sponsored_out_of_range |-> FALSE]

\* A row of either sheet writes the rank and marker of both facets.
WriteFacet_Both(rec, is_organic, rank, is_oor) ==
    [rec EXCEPT !.organic_rank = rank, !.organic_out_of_range = is_oor,
                !.sponsored_rank = rank, !.sponsored_out_of_range = is_oor]

\* Lines 359-366: the facet of the sheet the row is from.
WriteFacet(rec, is_organic, rank, is_oor) ==
    IF is_organic
      THEN [rec EXCEPT !.organic_rank = rank, !.organic_out_of_range = is_oor]
      ELSE [rec EXCEPT !.sponsored_rank = rank, !.sponsored_out_of_range = is_oor]

\* A cell without a rank holds no data, an out-of-range marker included.
NoData_RankOnly(rank, is_oor) == rank = None

\* Line 344: a cell with no rank and no out-of-range marker holds no data.
NoData(rank, is_oor) == rank = None /\ ~is_oor

\* What one classified cell does when the record of its key is made anew at
\* every write instead of being looked up first.
RankCell_AlwaysNew(acc, parsed, asin, keyword_text, is_organic, date_col) ==
    LET key == <<Upper(asin), Lower(keyword_text), date_col>>
    IN  IF parsed.err # "" THEN [acc EXCEPT !.err = parsed.err]
        ELSE IF NoData(parsed.rank, parsed.oor) THEN acc
        ELSE [err    |-> "",
              merged |-> DictPut(acc.merged, key,
                                 WriteFacet(NewRank(asin, keyword_text, date_col), is_organic,
                                            parsed.rank, parsed.oor)),
              oc     |-> acc.oc + (IF is_organic THEN 1 ELSE 0),
              sc     |-> acc.sc + (IF is_organic THEN 0 ELSE 1)]

\* Lines 344-366: what one classified cell does to merged_ranks and the
\* counters; acc is [err, merged, oc, sc].
RankCell(acc, parsed, asin, keyword_text, is_organic, date_col) ==
    LET key == <<Upper(asin), Lower(keyword_text), date_col>>
        old == IF key \in DOMAIN acc.merged THEN acc.merged[key]
               ELSE NewRank(asin, keyword_text, date_col)
    IN  IF parsed.err # "" THEN [acc EXCEPT !.err = parsed.err]
        ELSE IF NoData(parsed.rank, parsed.oor) THEN acc
        ELSE [err    |-> "",
              merged |-> DictPut(acc.merged, key,
                                 WriteFacet(old, is_organic, parsed.rank, parsed.oor)),
              oc     |-> acc.oc + (IF is_organic THEN 1 ELSE 0),
              sc     |-> acc.sc + (IF is_organic THEN 0 ELSE 1)]

\* A cell is read only while the key has no record for the date.
RankDate_KeepFirst(acc, row, date_idx, asin, keyword_text, is_organic, date_col) ==
    IF date_idx = None \/ date_idx[1] >= Len(row) THEN acc
    ELSE IF <<Upper(asin), Lower(keyword_text), date_col>> \in DOMAIN acc.merged THEN acc
    ELSE RankCell(acc, parse_rank_value(row[date_idx[1] + 1]), asin, keyword_text,
                  is_organic, date_col)

\* Lines 331-366: one date column of one row.
RankDate(acc, row, date_idx, asin, keyword_text, is_organic, date_col) ==
    IF date_idx = None \/ date_idx[1] >= Len(row) THEN acc
    ELSE RankCell(acc, parse_rank_value(row[date_idx[1] + 1]), asin, keyword_text,
                  is_organic, date_col)

\* Lines 331-366: the date columns of one row, in the order of sorted_dates,
\* up to the first exception.
RECURSIVE RankDates(_, _, _, _, _, _, _, _)
RankDates(acc, row, ci, col_map, asin, keyword_text, is_organic, dates) ==
    IF Len(dates) = 0 \/ acc.err # "" THEN acc
    ELSE RankDates(RankDate(acc, row, DateIdx(ci, col_map, dates[1]), asin, keyword_text,
                            is_organic, dates[1]),
                   row, ci, col_map, asin, keyword_text, is_organic, Tail(dates))

\* The end of one row of the rank pass: done is [err, merged, oc, sc].
RankRowDone(done) ==
    IF done.err # ""
      THEN /\ Raise(done.err)
           /\ UNCHANGED <<row_i, merged_ranks, organic_count, sponsored_count>>
      ELSE /\ merged_ranks' = done.merged
           /\ organic_count' = done.oc
           /\ sponsored_count' = done.sc
           /\ row_i' = row_i + 1
           /\ UNCHANGED <<pc, error>>

\* Lines 324-366: one row of the rank pass.
RankRow ==
    /\ pc = "ranks"
    /\ row_i < Len(RankWork)
    /\ LET w            == RankWork[row_i + 1]
           asin         == StrField(w.row, col_indices, ASIN, 0)
           keyword_text == StrField(w.row, col_indices, Keyword, 3)
       IN  IF FirstErr(<<asin.err, keyword_text.err>>) # ""
             THEN /\ Raise(FirstErr(<<asin.err, keyword_text.err>>))
                  /\ UNCHANGED <<row_i, merged_ranks, organic_count, sponsored_count>>
           ELSE IF asin.v = <<>> \/ keyword_text.v = <<>>
             THEN /\ row_i' = row_i + 1
                  /\ UNCHANGED <<pc, error, merged_ranks, organic_count, sponsored_count>>
           ELSE RankRowDone(RankDates([err |-> "", merged |-> merged_ranks,
                                       oc |-> organic_count, sc |-> sponsored_count],
                                      w.row, col_indices, date_col_map, asin.v,
                                      keyword_text.v, w.sheet = "Organic", sorted_dates))
    /\ UNCHANGED <<classifyVars, inputVars, outerVars, clock, schemaVars, keywordVars, rank_filtered, stats>>

\* Every measurement kept, whatever its keyword.
CrossFilter_KeepAll(merged, kept_keys) == merged

\* Line 375: the measurements of the kept keywords.
CrossFilter(merged, kept_keys) ==
    [k \in {x \in DOMAIN merged : <<x[1], x[2]>> \in kept_keys} |-> merged[k]]

NoStats ==
    [keyword_count |-> 0, keyword_total_parsed |-> 0, keyword_filtered |-> 0,
     rank_entries |-> 0, organic_ranks |-> 0, sponsored_ranks |-> 0,
     date_range_start |-> None, date_range_end |-> None, date_count |-> 0]

\* Lines 373-392: the cross-filter, the statistics and the return.
Return ==
    /\ pc = "ranks"
    /\ row_i = Len(RankWork)
    /\ LET filtered == CrossFilter(merged_ranks, kept_keyword_keys)
       IN  /\ merged_ranks' = filtered
           /\ rank_filtered' = Cardinality(DOMAIN merged_ranks) - Cardinality(DOMAIN filtered)
           /\ stats' =
                [keyword_count        |-> Len(keyword_records),
                 keyword_total_parsed |-> Len(keyword_map),
                 keyword_filtered     |-> filtered_count,
                 rank_entries         |-> Cardinality(DOMAIN filtered),
                 organic_ranks        |-> organic_count,
                 sponsored_ranks      |-> sponsored_count,
                 date_range_start     |-> IF sorted_dates # <<>>
                                            THEN Some(sorted_dates[1]) ELSE None,
                 date_range_end       |-> IF sorted_dates # <<>>
                                            THEN Some(sorted_dates[Len(sorted_dates)]) ELSE None,
                 date_count           |-> Len(sorted_dates)]
    /\ pc' = "returned"
    /\ UNCHANGED <<classifyVars, inputVars, outerVars, clock, schemaVars, row_i, keywordVars,
                   organic_count, sponsored_count, error>>

\* ------------------------------------------------------------------------
\* parse_rank_value as a call of its own
\* ------------------------------------------------------------------------

NotCalled == [err |-> "not called", rank |-> None, oor |-> FALSE]

Classify ==
    /\ pc = "classify"
    /\ ret' = parse_rank_value(val)
    /\ pc' = "classified"
    /\ UNCHANGED <<val, inputVars, outerVars, clock, schemaVars, row_i, keywordVars, rankVars, error>>


\* ------------------------------------------------------------------------
\* Specification of the cell classifier: every cell of ClassifyInputs
\* ------------------------------------------------------------------------

Alphabet == {"0", "1", "3", "6", "7", "+", "-", ".", " ", "e", "i", "n", "f", "a"}

FreeStrings == UNION {[1..k -> Alphabet] : k \in 0..MaxLen}

\* The cells of the documented examples, and numbers too long for FreeStrings.
ExampleStrings ==
    {<<"9", "7", "+">>, <<"1", "5", "0">>, <<"4", "2">>, <<"2", "5", "+">>,
     <<"3", "0", "6", ".", "9">>, <<"1", "e", "9", "9", "9">>, <<"-", "1", "e", "9", "9", "9">>,
     <<"I", "n", "f">>, <<"N", "/", "A">>, <<" ", "4", "2", " ">>, <<"4", "2", ".", "0">>,
     <<"1", "2", "3", "4", "5", "6", "7", "8", "9", "0", "1", "2">>}

ClassifyInputs ==
    {StrCell(s) : s \in FreeStrings \cup ExampleStrings}
      \cup {NoneCell, NaNCell, InfCell, NegInfCell}
      \cup {IntCell(n) : n \in {-1, 0, 1, 42, 306, 307}}
      \cup {FloatCell(n) : n \in {-5, 0, 9, 10, 425, 3069, 3070}}

\* download_rankings has not ended: dl_ret is [how, bytes], how the call ended
\* ("returned", "raised") and the value it returned, None or Some(file).
Running == [how |-> "running", bytes |-> None]

\* The variables of download_rankings outside a call of it.
DownloadIdle ==
    /\ portal = {}
    /\ dl_pc = "idle"
    /\ max_retries = 0
    /\ attempt = 0
    /\ logged_in = FALSE
    /\ gets = 0
    /\ dl_failed = 0
    /\ waited = 0
    /\ dl_ret = Running

\* process_country's result dict; keywords_filtered is None while the dict
\* has no such key.
NewResult(c) ==
    [country |-> c, status |-> "failed", keywords |-> 0, ranks |-> 0, error |-> None,
     keywords_filtered |-> None]

\* The locals of upsert_keywords to upsert_ranks before they are assigned.
PersistIdle ==
    /\ kw_i = 0
    /\ kw_count = 0
    /\ keyword_id_map = EmptyDict
    /\ rank_records = {}
    /\ skipped = 0
    /\ rank_i = 0
    /\ rank_count = 0

\* The variables of process_country outside a call of it.
CountryIdle ==
    /\ c_pc = "idle"
    /\ country = ""
    /\ dry_run = FALSE
    /\ file_bytes = None
    /\ result = NewResult("")
    /\ import_rec = "none"
    /\ calls = <<>>
    /\ PersistIdle
    /\ exc = ""

\* main's args and environment: --country, --dry-run, and whether SI_EMAIL
\* and SI_PASSWORD are set.
ArgsOf(c, d, e) == [country |-> c, dry_run |-> d, credentials |-> e]

\* The variables of main outside a run of it.
MainIdle ==
    /\ m_pc = "idle"
    /\ args = ArgsOf(None, FALSE, FALSE)
    /\ countries = <<>>
    /\ m_i = 0
    /\ results = <<>>
    /\ alerts = <<>>
    /\ total_keywords = 0
    /\ total_ranks = 0
    /\ m_waited = 0
    /\ summary = None
    /\ exit_code = None

\* The variables of the download and of the orchestration when only the
\* parser runs.
PipeIdle == DownloadIdle /\ CountryIdle /\ MainIdle

\* The variables of parse_excel before any call of it.
ParseIdle ==
    /\ headers = <<>>
    /\ col_indices = EmptyDict
    /\ date_columns = <<>>
    /\ date_col_map = EmptyDict
    /\ sorted_dates = <<>>
    /\ row_i = 0
    /\ keyword_map = <<>>
    /\ keyword_records = <<>>
    /\ filtered_count = 0
    /\ kept_keyword_keys = {}
    /\ merged_ranks = EmptyDict
    /\ organic_count = 0
    /\ sponsored_count = 0
    /\ rank_filtered = 0
    /\ stats = NoStats
    /\ error = ""

InitClassify ==
    /\ pc = "classify"
    /\ val \in ClassifyInputs
    /\ ret = NotCalled
    /\ has_organic = FALSE
    /\ has_sponsored = FALSE
    /\ organic_data = <<>>
    /\ sponsored_data = <<>>
    /\ marketplace_id = ""
    /\ import_id = ""
    /\ clock = 0
    /\ earlier = None
    /\ columns = <<>>
    /\ detected = NotDetected
    /\ PipeIdle
    /\ ParseIdle

NextClassify == Classify

SpecClassify == InitClassify /\ [][NextClassify]_vars


\* ------------------------------------------------------------------------
\* Specification of parse_excel: every workbook of Workbooks
\* ------------------------------------------------------------------------

Date1 == <<"2", "0", "2", "5", "-", "0", "1", "-", "0", "1">>

Date2 == <<"2", "0", "2", "5", "-", "0", "1", "-", "0", "2">>

Midnight == <<" ", "0", "0", ":", "0", "0", ":", "0", "0">>

Noon == <<" ", "1", "2", ":", "3", "0", ":", "0", "0">>

FixedHeader == [i \in 1..Len(FIXED_COLUMNS) |-> StrCell(FIXED_COLUMNS[i])]

\* The header of a well-formed sheet: the fixed columns, then one column a day.
GoodHeader == FixedHeader \o <<StrCell(Date1), StrCell(Date2)>>

HeaderRows ==
    {GoodHeader,
     \* the days as timestamp objects, latest first
     FixedHeader \o <<TimestampCell(Date2 \o Midnight), TimestampCell(Date1 \o Midnight)>>,
     \* one day twice, as a string and as a timestamp
     FixedHeader \o <<StrCell(Date1), TimestampCell(Date1 \o Midnight)>>,
     \* padded names
     [i \in 1..Len(GoodHeader) |-> StrCell(<<" ">> \o GoodHeader[i].s \o <<" ">>)],
     \* no Tracked column
     [GoodHeader EXCEPT ![5] = NoneCell],
     \* no ASIN column
     [GoodHeader EXCEPT ![1] = StrCell(<<"I", "d">>)],
     \* no date column
     FixedHeader,
     FixedHeader \o <<StrCell(<<"2", "0", "2", "5", "/", "0", "1", "/", "0", "1">>)>>,
     \* the days as strings of a date and a time of day
     FixedHeader \o <<StrCell(Date1 \o Noon), StrCell(Date2 \o Midnight)>>,
     \* the required columns and the days only
     SubSeq(GoodHeader, 1, 5) \o <<StrCell(Date1), StrCell(Date2)>>}

\* A data row under GoodHeader.
MakeRow(asin, keyword_text, tracked, spent, orders, d1, d2) ==
    <<StrCell(asin), StrCell(<<>>), StrCell(<<>>), StrCell(keyword_text), StrCell(tracked),
      FloatCell(105), StrCell(<<>>), NoneCell, spent, orders,
      FloatCell(20), StrCell(<<"7">>), StrCell(<<"N", "/", "A">>), NaNCell,
      StrCell(<<"0", ".", "5">>), IntCell(0), StrCell(<<" ", "1", "e", "-", "3">>),
      d1, d2>>

\* Two spellings of one EntityKey.
Identities ==
    {<<<<"b", "1">>, <<"K", "w">>>>, <<<<"B", "1">>, <<"k", "w">>>>}

\* Tracked with no spend given, untracked with a spend of 0.
Profiles ==
    {<<<<"Y", "e", "s">>, StrCell(<<>>)>>,
     <<<<"n", "o">>, StrCell(<<"0">>)>>}

\* The cells of the two days: a rank and a marker, text and a number past the
\* range.
DayCells ==
    {<<IntCell(5), StrCell(<<"9", "7", "+">>)>>,
     <<StrCell(<<"x">>), FloatCell(3070)>>}

\* The rows of the well-formed workbooks; the last two are an untracked row
\* with a spend, and an untracked row of another EntityKey.
RowSet ==
    {MakeRow(id[1], id[2], pr[1], pr[2], IntCell(3), dc[1], dc[2]) :
        id \in Identities, pr \in Profiles, dc \in DayCells}
      \cup
    {MakeRow(<<"B", "1">>, <<"k", "w">>, <<"N", "o">>, FloatCell(125), IntCell(3),
             StrCell(<<>>), StrCell(<<" ", "3", "0", "6", ".", "9">>)),
     MakeRow(<<"a", "1">>, <<"k", "w">>, <<"n", "o">>, NoneCell, IntCell(3),
             IntCell(7), NoneCell)}

NormalRow == MakeRow(<<"b", "1">>, <<"K", "w">>, <<"Y", "e", "s">>, StrCell(<<>>),
                     IntCell(3), IntCell(5), StrCell(<<"9", "7", "+">>))

\* Rows with a defect: no ASIN, no keyword, a row that ends before the second
\* day, a row that ends after Tracked, an infinite rank, an infinite metric.
DefectRows ==
    {MakeRow(<<" ">>, <<"k", "w">>, <<"Y", "e", "s">>, StrCell(<<"0">>), IntCell(3),
             IntCell(5), NoneCell),
     [NormalRow EXCEPT ![4] = NaNCell],
     SubSeq(NormalRow, 1, 18),
     SubSeq(NormalRow, 1, 5),
     [NormalRow EXCEPT ![18] = StrCell(<<"i", "n", "f">>)],
     [NormalRow EXCEPT ![18] = StrCell(<<"n", "a", "n">>)],
     [NormalRow EXCEPT ![10] = InfCell],
     [NormalRow EXCEPT ![10] = StrCell(<<"1", "2", ".", "7">>)]}

\* The row at position i of a sheet carries the sheet and i in SKU and Title.
Stamp(rows, sheet_letter) ==
    [i \in 1..Len(rows) |->
        [rows[i] EXCEPT ![2] = IF Len(rows[i]) >= 2
                                 THEN StrCell(<<LowerChar(sheet_letter), DigitChar(i)>>) ELSE @,
                        ![3] = IF Len(rows[i]) >= 3
                                 THEN StrCell(<<sheet_letter, DigitChar(i)>>) ELSE @]]

RowSeqs(S, n) == UNION {[1..k -> S] : k \in 0..n}

\* A sheet is [has, data]: absent, or present with its rows.
AbsentSheet == [has |-> FALSE, data |-> <<>>]

Sheet(header, rows, sheet_letter) ==
    [has |-> TRUE, data |-> <<header>> \o Stamp(rows, sheet_letter)]

\* A sheet of rows, absent when it has none.
SheetOf(rows, sheet_letter) ==
    IF rows = <<>> THEN AbsentSheet ELSE Sheet(GoodHeader, rows, sheet_letter)

\* Well-formed workbooks of at most MaxRows rows of RowSet.
DataWorkbooks ==
    UNION {{[organic |-> SheetOf(os, "O"), sponsored |-> SheetOf(ss, "S")] :
               ss \in RowSeqs(RowSet, MaxRows - Len(os))} :
           os \in RowSeqs(RowSet, MaxRows)}

\* The sheets of the workbooks that try the validation.
SchemaSheets(header, sheet_letter) ==
    {AbsentSheet,
     [has |-> TRUE, data |-> <<>>],
     Sheet(header, <<>>, sheet_letter),
     Sheet(header, <<NormalRow>>, sheet_letter)}

SchemaWorkbooks ==
    {[organic |-> o, sponsored |-> sp] :
        o \in UNION {SchemaSheets(h, "O") : h \in HeaderRows},
        sp \in SchemaSheets(GoodHeader, "S") \cup SchemaSheets(FixedHeader, "S")}

\* One row with a defect in one sheet, the other sheet absent or well-formed.
DefectWorkbooks ==
    {[organic |-> Sheet(GoodHeader, <<r>>, "O"), sponsored |-> sp] :
        r \in DefectRows, sp \in {AbsentSheet, Sheet(GoodHeader, <<NormalRow>>, "S")}}
      \cup
    {[organic |-> o, sponsored |-> Sheet(GoodHeader, <<r>>, "S")] :
        r \in DefectRows, o \in {AbsentSheet, Sheet(GoodHeader, <<NormalRow>>, "O")}}

Workbooks == DataWorkbooks \cup SchemaWorkbooks \cup DefectWorkbooks

\* The call parse_excel(file_bytes, marketplace_id, import_id) on a workbook
\* of wbs.
Start(wbs) ==
    /\ pc = "open"
    /\ val = NoneCell
    /\ ret = NotCalled
    /\ \E wb \in wbs :
         /\ has_organic = wb.organic.has
         /\ has_sponsored = wb.sponsored.has
         /\ organic_data = wb.organic.data
         /\ sponsored_data = wb.sponsored.data
    /\ marketplace_id = "m1"
    /\ import_id = "i1"
    /\ clock = 0
    /\ earlier = None
    /\ columns = <<>>
    /\ detected = NotDetected
    /\ PipeIdle
    /\ ParseIdle

Init == Start(Workbooks)

Next ==
    \/ ValidateSheets
    \/ ValidatePrimary
    \/ ResolveSchema
    \/ DetectDates
    \/ KeywordRow
    \/ FilterKeywords
    \/ RankRow
    \/ Return

Spec == Init /\ [][Next]_vars


\* ------------------------------------------------------------------------
\* Specification of the date columns: detect_date_columns on every header
\* of Headers, and parse_excel on the workbooks of every header row
\* ------------------------------------------------------------------------

Days == {Date1, Date2}

\* The header cells of one day: the literal date, a timestamp object, and
\* strings of the date and a time of day.
DateForms(d) ==
    {StrCell(d), TimestampCell(d \o Midnight), StrCell(d \o Midnight), StrCell(d \o Noon),
     StrCell(<<" ">> \o d \o <<" ">>)}

\* Header cells that are no date column.
OtherHeaders ==
    {StrCell(ASIN), NoneCell, IntCell(20250101), StrCell(<<>>),
     StrCell(<<"2", "0", "2", "5", "/", "0", "1", "/", "0", "1">>),
     StrCell(<<"2", "0", "2", "5", "-", "1", "-", "1">>),
     StrCell(<<"0", "1", "-", "0", "1", "-", "2", "0", "2", "5">>)}

Headers ==
    UNION {[1..k -> UNION {DateForms(d) : d \in Days} \cup OtherHeaders] : k \in 0..MaxCols}

\* detect_date_columns(columns) as a call of its own.
DetectColumns ==
    /\ pc = "detect"
    /\ detected' = detect_date_columns(columns)
    /\ pc' = "detected"
    /\ UNCHANGED <<classifyVars, inputVars, earlier, columns, pipeVars, clock, schemaVars,
                   row_i, keywordVars, rankVars, error>>

StartDetect ==
    /\ pc = "detect"
    /\ columns \in Headers
    /\ detected = NotDetected
    /\ val = NoneCell
    /\ ret = NotCalled
    /\ has_organic = FALSE
    /\ has_sponsored = FALSE
    /\ organic_data = <<>>
    /\ sponsored_data = <<>>
    /\ marketplace_id = ""
    /\ import_id = ""
    /\ clock = 0
    /\ earlier = None
    /\ PipeIdle
    /\ ParseIdle

InitDates == StartDetect \/ Start(SchemaWorkbooks)

NextDates ==
    \/ DetectColumns
    \/ Next

SpecDates == InitDates /\ [][NextDates]_vars


\* ------------------------------------------------------------------------
\* Specification of two calls of parse_excel on the same arguments
\* ------------------------------------------------------------------------

\* Line 392: the tuple parse_excel returns.
Output ==
    [keyword_records |-> keyword_records, merged_ranks |-> merged_ranks,
     sorted_dates |-> sorted_dates, stats |-> stats]

\* The caller keeps what the call returned and calls parse_excel again with
\* the same file bytes, marketplace id and import id; the locals of the new
\* call are fresh, datetime.utcnow() goes on from where it was.
CallAgain ==
    /\ pc = "returned"
    /\ earlier = None
    /\ earlier' = Some(Output)
    /\ pc' = "open"
    /\ headers' = <<>>
    /\ col_indices' = EmptyDict
    /\ date_columns' = <<>>
    /\ date_col_map' = EmptyDict
    /\ sorted_dates' = <<>>
    /\ row_i' = 0
    /\ keyword_map' = <<>>
    /\ keyword_records' = <<>>
    /\ filtered_count' = 0
    /\ kept_keyword_keys' = {}
    /\ merged_ranks' = EmptyDict
    /\ organic_count' = 0
    /\ sponsored_count' = 0
    /\ rank_filtered' = 0
    /\ stats' = NoStats
    /\ UNCHANGED <<classifyVars, inputVars, detectVars, pipeVars, clock, error>>

NextTwice ==
    \/ Next
    \/ CallAgain

SpecTwice == Init /\ [][NextTwice]_vars


\* ------------------------------------------------------------------------
\* ScaleInsightsScraper.download_rankings (scripts/utils/scraper.py)
\* ------------------------------------------------------------------------

\* The largest max_retries of the calls explored.
MaxRetries == 3

\* scraper.py line 113: the default of max_retries.
DefaultRetries == 3

\* scraper.py line 166: the retry delay is 5 seconds times the attempt.
BackoffStep == 5

\* A downloaded file is [size, wb]: the length of its bytes and the workbook
\* in it.
FileOf(size, wb) == [size |-> size, wb |-> wb]

\* What a request of the download URL ends with: an exception of the
\* session, a redirect to the login page (line 143), an error status (line
\* 149), an HTML page (lines 152-157) or a file.
Responses ==
    {[kind |-> k, content |-> None] : k \in {"exception", "login", "status", "html"}}
      \cup {[kind |-> "file", content |-> Some(f)] : f \in portal}

\* The variables of the parser and of its callers in this module.
parserVars == <<pc, classifyVars, inputVars, earlier, detectVars, clock, schemaVars, row_i,
                keywordVars, rankVars, error>>

\* What a step of download_rankings leaves alone.
DownloadFrame == UNCHANGED <<parserVars, countryVars, mainVars>>

\* The locals of a call of download_rankings(country_code, from_date, to_date, n).
DownloadCalled(n) ==
    /\ dl_pc' = "ensure"
    /\ max_retries' = n
    /\ attempt' = 0
    /\ gets' = 0
    /\ dl_failed' = 0
    /\ waited' = 0
    /\ dl_ret' = Running

\* The call of download_rankings has ended.
DownloadEnded == dl_ret.how # "running"

\* Lines 103-106 and 130: _ensure_logged_in() logs in when the session is not
\* logged in; login() returns or raises, and its exception leaves the call.
EnsureLoggedIn ==
    /\ dl_pc = "ensure"
    /\ \/ /\ logged_in
          /\ dl_pc' = "loop"
          /\ UNCHANGED <<logged_in, dl_ret>>
       \/ /\ ~logged_in
          /\ logged_in' = TRUE
          /\ dl_pc' = "loop"
          /\ UNCHANGED dl_ret
       \/ /\ ~logged_in
          /\ dl_pc' = "raised"
          /\ dl_ret' = [how |-> "raised", bytes |-> None]
          /\ UNCHANGED logged_in
    /\ UNCHANGED <<portal, max_retries, attempt, gets, dl_failed, waited>>
    /\ DownloadFrame

\* Line 137: for attempt in range(1, max_retries + 1); when the range is
\* exhausted the function body ends, which returns None.
LoopHead ==
    /\ dl_pc = "loop"
    /\ IF attempt + 1 <= max_retries
         THEN /\ attempt' = attempt + 1
              /\ dl_pc' = "get"
              /\ UNCHANGED dl_ret
         ELSE /\ dl_pc' = "returned"
              /\ dl_ret' = [how |-> "returned", bytes |-> None]
              /\ UNCHANGED attempt
    /\ UNCHANGED <<portal, max_retries, logged_in, gets, dl_failed, waited>>
    /\ DownloadFrame

\* Lines 149-161: raise_for_status, the content type check and the return
\* of resp.content.
Checked(resp) ==
    IF resp.kind = "file"
      THEN /\ dl_pc' = "returned"
           /\ dl_ret' = [how |-> "returned", bytes |-> resp.content]
      ELSE /\ dl_pc' = "except"
           /\ UNCHANGED dl_ret

\* Lines 140-145: the request of the attempt; a redirect to the login page
\* marks the session as logged out.
Request ==
    /\ dl_pc = "get"
    /\ gets' = gets + 1
    /\ \E resp \in Responses :
         CASE resp.kind = "exception" ->
                /\ dl_pc' = "except"
                /\ UNCHANGED <<logged_in, dl_ret>>
           [] resp.kind = "login" ->
                /\ logged_in' = FALSE
                /\ dl_pc' = "relogin"
                /\ UNCHANGED dl_ret
           [] OTHER ->
                /\ Checked(resp)
                /\ UNCHANGED logged_in
    /\ UNCHANGED <<portal, max_retries, attempt, dl_failed, waited>>
    /\ DownloadFrame

\* Line 146: self.login() inside the attempt returns or raises.
Relogin ==
    /\ dl_pc = "relogin"
    /\ \/ /\ logged_in' = TRUE
          /\ dl_pc' = "get_again"
       \/ /\ dl_pc' = "except"
          /\ UNCHANGED logged_in
    /\ UNCHANGED <<portal, max_retries, attempt, gets, dl_failed, waited, dl_ret>>
    /\ DownloadFrame

\* Line 147: the second request of the attempt; the page of a further
\* redirect to the login form is an HTML page.
RequestAgain ==
    /\ dl_pc = "get_again"
    /\ gets' = gets + 1
    /\ \E resp \in Responses :
         IF resp.kind = "exception" \/ resp.kind = "login"
           THEN dl_pc' = "except" /\ UNCHANGED dl_ret
           ELSE Checked(resp)
    /\ UNCHANGED <<portal, max_retries, attempt, logged_in, dl_failed, waited>>
    /\ DownloadFrame

\* The seconds slept after a failed attempt that is not the last.
Backoff(n) == BackoffStep * n

\* Whether a failed attempt is followed by another.
Retry(n, limit) == n < limit

\* Lines 163-171: the except clause sleeps and goes on with the loop, or
\* raises after the last attempt.
AttemptFailed ==
    /\ dl_pc = "except"
    /\ dl_failed' = dl_failed + 1
    /\ IF Retry(attempt, max_retries)
         THEN /\ waited' = waited + Backoff(attempt)
              /\ dl_pc' = "loop"
              /\ UNCHANGED dl_ret
         ELSE /\ dl_pc' = "raised"
              /\ dl_ret' = [how |-> "raised", bytes |-> None]
              /\ UNCHANGED waited
    /\ UNCHANGED <<portal, max_retries, attempt, logged_in, gets>>
    /\ DownloadFrame

\* The steps of download_rankings.
Download ==
    \/ EnsureLoggedIn
    \/ LoopHead
    \/ Request
    \/ Relogin
    \/ RequestAgain
    \/ AttemptFailed

\* Workbooks of the site: one without sheets, one of one tracked keyword,
\* one of two tracked keywords of which one is in both sheets.
NoSheets == [organic |-> AbsentSheet, sponsored |-> AbsentSheet]

OneKeyword == [organic |-> Sheet(GoodHeader, <<NormalRow>>, "O"), sponsored |-> AbsentSheet]

TwoKeywords ==
    [organic   |-> Sheet(GoodHeader,
                         <<NormalRow,
                           MakeRow(<<"a", "1">>, <<"k", "w">>, <<"Y", "e", "s">>, StrCell(<<>>),
                                   IntCell(3), IntCell(7), NoneCell)>>, "O"),
     sponsored |-> Sheet(GoodHeader, <<NormalRow>>, "S")]

\* The files of the site: an error page below every minimum size, and files
\* large enough for some countries or for all.
PortalFiles ==
    {FileOf(20 * 1024 - 1, NoSheets),
     FileOf(100 * 1024, NoSheets),
     FileOf(100 * 1024, OneKeyword),
     FileOf(500 * 1024, TwoKeywords)}

\* A call download_rankings(country_code, from_date, to_date, max_retries)
\* on a scraper that is logged in or not.
InitDownload ==
    /\ pc = "idle"
    /\ val = NoneCell
    /\ ret = NotCalled
    /\ has_organic = FALSE
    /\ has_sponsored = FALSE
    /\ organic_data = <<>>
    /\ sponsored_data = <<>>
    /\ marketplace_id = ""
    /\ import_id = ""
    /\ clock = 0
    /\ earlier = None
    /\ columns = <<>>
    /\ detected = NotDetected
    /\ ParseIdle
    /\ portal = PortalFiles
    /\ dl_pc = "ensure"
    /\ max_retries \in -1..MaxRetries
    /\ attempt = 0
    /\ logged_in \in BOOLEAN
    /\ gets = 0
    /\ dl_failed = 0
    /\ waited = 0
    /\ dl_ret = Running
    /\ CountryIdle
    /\ MainIdle

NextDownload == Download

SpecDownload == InitDownload /\ [][NextDownload]_vars


\* ------------------------------------------------------------------------
\* process_country (scripts/pull_rankings.py) and the calls of scripts/utils/db.py
\* ------------------------------------------------------------------------

\* pull_rankings.py line 53.
ALL_COUNTRIES == <<"US", "CA", "UK", "DE", "FR", "AU">>

\* db.py lines 23-30.
MARKETPLACE_UUIDS ==
    [US |-> "f47ac10b-58cc-4372-a567-0e02b2c3d479",
     CA |-> "a1b2c3d4-58cc-4372-a567-0e02b2c3d480",
     UK |-> "b2c3d4e5-58cc-4372-a567-0e02b2c3d481",
     DE |-> "c3d4e5f6-58cc-4372-a567-0e02b2c3d482",
     FR |-> "d4e5f6a7-58cc-4372-a567-0e02b2c3d483",
     AU |-> "f6a7b8c9-58cc-4372-a567-0e02b2c3d485"]

\* db.py lines 43-50.
COUNTRY_MIN_SIZE ==
    [US |-> 500 * 1024,
     CA |-> 100 * 1024,
     UK |-> 100 * 1024,
     DE |-> 50 * 1024,
     FR |-> 20 * 1024,
     AU |-> 20 * 1024]

\* db.py line 132: batch_size of upsert_keywords.
KeywordBatchSize == 500

\* db.py line 214: batch_size of upsert_ranks.
RankBatchSize == 2000

\* The id the database gives the data_imports row.
ImportId == "i1"

\* How a request to the database ends: it takes effect and returns, it
\* raises without effect, or it takes effect and the call raises all the
\* same (the answer is lost or cannot be read).
Outcomes == {"ok", "raises", "lost"}

TookEffect(o) == o # "raises"

\* The status of the data_imports row after a request that writes status.
Written(status_now, status, o) == IF TookEffect(o) THEN status ELSE status_now

\* The locals of a call process_country(scraper, c, from_date, to_date, d).
ProcessCalled(c, d) ==
    /\ c_pc' = "start"
    /\ country' = c
    /\ dry_run' = d
    /\ file_bytes' = None
    /\ result' = NewResult(c)
    /\ import_rec' = "none"
    /\ calls' = <<>>
    /\ kw_i' = 0
    /\ kw_count' = 0
    /\ keyword_id_map' = EmptyDict
    /\ rank_records' = {}
    /\ skipped' = 0
    /\ rank_i' = 0
    /\ rank_count' = 0
    /\ exc' = ""

\* An exception leaves the outer try block of process_country.
Throw(e) ==
    /\ exc' = e
    /\ c_pc' = "except"

\* An exception leaves the inner try block of process_country.
ThrowInner(e) ==
    /\ exc' = e
    /\ c_pc' = "inner_except"

\* Line 87: scraper.download_rankings(si_code, from_date, to_date).
CallDownload ==
    /\ c_pc = "start"
    /\ c_pc' = "download"
    /\ DownloadCalled(DefaultRetries)
    /\ UNCHANGED <<portal, logged_in>>
    /\ UNCHANGED <<country, dry_run, file_bytes, result, import_rec, calls, persistVars, exc>>
    /\ UNCHANGED <<parserVars, mainVars>>

\* No file is too small.
TooSmall_Never(file, c) == FALSE

\* Lines 90-95: the file is smaller than the minimum of the country.
TooSmall(file, c) == file.size < COUNTRY_MIN_SIZE[c]

\* Lines 87-102: the download has ended: its exception or a file that is too
\* small leaves the try block, a dry run returns, and otherwise the import
\* record is next.
Downloaded ==
    /\ c_pc = "download"
    /\ DownloadEnded
    /\ IF dl_ret.how = "raised"
         THEN /\ Throw("Exception: Failed to download")
              /\ UNCHANGED <<file_bytes, result>>
         ELSE /\ file_bytes' = dl_ret.bytes
              /\ IF dl_ret.bytes = None
                   THEN /\ Throw("TypeError: object of type 'NoneType' has no len()")
                        /\ UNCHANGED result
                   ELSE IF TooSmall(dl_ret.bytes[1], country)
                   THEN /\ Throw("ValueError: File too small")
                        /\ UNCHANGED result
                   ELSE IF dry_run
                   THEN /\ result' = [result EXCEPT !.status = "completed"]
                        /\ c_pc' = "returned"
                        /\ UNCHANGED exc
                   ELSE /\ c_pc' = "create"
                        /\ UNCHANGED <<result, exc>>
    /\ UNCHANGED <<country, dry_run, import_rec, calls, persistVars>>
    /\ UNCHANGED <<parserVars, downloadVars, mainVars>>

\* Lines 106-111 and db.py 75-101: create_import_record inserts a row of
\* status 'processing' and returns its id.
CreateImport ==
    /\ c_pc = "create"
    /\ calls' = Append(calls, "create_import_record")
    /\ \E o \in Outcomes :
         /\ import_rec' = Written(import_rec, "processing", o)
         /\ IF o = "ok"
              THEN c_pc' = "parse" /\ UNCHANGED exc
              ELSE Throw("Exception: create_import_record")
    /\ UNCHANGED <<country, dry_run, file_bytes, result, persistVars>>
    /\ UNCHANGED <<parserVars, downloadVars, mainVars>>

\* Lines 115-117: the call parse_excel(file_bytes, marketplace_id, import_id).
CallParse ==
    /\ c_pc = "parse"
    /\ c_pc' = "parsing"
    /\ pc' = "open"
    /\ has_organic' = file_bytes[1].wb.organic.has
    /\ has_sponsored' = file_bytes[1].wb.sponsored.has
    /\ organic_data' = file_bytes[1].wb.organic.data
    /\ sponsored_data' = file_bytes[1].wb.sponsored.data
    /\ marketplace_id' = MARKETPLACE_UUIDS[country]
    /\ import_id' = ImportId
    /\ headers' = <<>>
    /\ col_indices' = EmptyDict
    /\ date_columns' = <<>>
    /\ date_col_map' = EmptyDict
    /\ sorted_dates' = <<>>
    /\ row_i' = 0
    /\ keyword_map' = <<>>
    /\ keyword_records' = <<>>
    /\ filtered_count' = 0
    /\ kept_keyword_keys' = {}
    /\ merged_ranks' = EmptyDict
    /\ organic_count' = 0
    /\ sponsored_count' = 0
    /\ rank_filtered' = 0
    /\ stats' = NoStats
    /\ error' = ""
    /\ UNCHANGED <<classifyVars, earlier, detectVars, clock>>
    /\ UNCHANGED <<country, dry_run, file_bytes, result, import_rec, calls, persistVars, exc>>
    /\ UNCHANGED <<downloadVars, mainVars>>

\* Lines 115-127: parse_excel has returned, or raised into the inner except
\* clause.
Parsed ==
    /\ c_pc = "parsing"
    /\ pc \in {"returned", "raised"}
    /\ IF pc = "raised"
         THEN ThrowInner(error)
         ELSE c_pc' = "upsert_keywords" /\ UNCHANGED exc
    /\ UNCHANGED <<country, dry_run, file_bytes, result, import_rec, calls, persistVars>>
    /\ UNCHANGED <<parserVars, downloadVars, mainVars>>

\* The records of a batch: records[i : i + batch_size] of n records.
BatchLen(n, i, batch_size) == IF n - i < batch_size THEN n - i ELSE batch_size

\* Line 127 and db.py 143-147: upsert_keywords(keyword_records) returns 0 for
\* an empty list.
UpsertKeywords ==
    /\ c_pc = "upsert_keywords"
    /\ calls' = Append(calls, "upsert_keywords")
    /\ kw_i' = 0
    /\ kw_count' = 0
    /\ c_pc' = IF keyword_records = <<>> THEN "wait" ELSE "keyword_batch"
    /\ UNCHANGED <<country, dry_run, file_bytes, result, import_rec, keyword_id_map,
                   rank_records, skipped, rank_i, rank_count, exc>>
    /\ UNCHANGED <<parserVars, downloadVars, mainVars>>

\* db.py 149-168: one batch of upsert_keywords, whose failure is raised
\* again, or the return of the total after the last batch.
KeywordBatch ==
    /\ c_pc = "keyword_batch"
    /\ IF kw_i < Len(keyword_records)
         THEN \/ /\ kw_count' = kw_count + BatchLen(Len(keyword_records), kw_i, KeywordBatchSize)
                 /\ kw_i' = kw_i + KeywordBatchSize
                 /\ UNCHANGED <<c_pc, exc>>
              \/ /\ ThrowInner("Exception: upsert_keywords")
                 /\ UNCHANGED <<kw_i, kw_count>>
         ELSE /\ c_pc' = "wait"
              /\ UNCHANGED <<kw_i, kw_count, exc>>
    /\ UNCHANGED <<country, dry_run, file_bytes, result, import_rec, calls, keyword_id_map,
                   rank_records, skipped, rank_i, rank_count>>
    /\ UNCHANGED <<parserVars, downloadVars, mainVars>>

\* Line 131 and db.py 252-260: wait_for_db_sync(3) sleeps.
WaitForSync ==
    /\ c_pc = "wait"
    /\ calls' = Append(calls, "wait_for_db_sync")
    /\ c_pc' = "fetch"
    /\ UNCHANGED <<country, dry_run, file_bytes, result, import_rec, persistVars, exc>>
    /\ UNCHANGED <<parserVars, downloadVars, mainVars>>

\* The id of the si_keywords row of a key.
IdOf(key) == <<"id", key[1], key[2]>>

\* db.py 185-196: the keys of the rows of si_keywords the records of this
\* import were upserted into.
UpsertedKeys ==
    {<<Upper(keyword_records[i].child_asin), Lower(keyword_records[i].keyword)>> :
        i \in 1..Len(keyword_records)}

\* Line 134 and db.py 171-207: fetch_keyword_ids(marketplace_id) raises, or
\* returns the ids of the rows the database shows, keyed by (child_asin
\* upper, keyword lower); a row upserted a moment ago may not show yet.
FetchKeywordIds ==
    /\ c_pc = "fetch"
    /\ calls' = Append(calls, "fetch_keyword_ids")
    /\ \/ /\ \E shown \in SUBSET UpsertedKeys :
               keyword_id_map' = [k \in shown |-> IdOf(k)]
          /\ c_pc' = "build"
          /\ UNCHANGED exc
       \/ /\ ThrowInner("Exception: fetch_keyword_ids")
          /\ UNCHANGED keyword_id_map
    /\ UNCHANGED <<country, dry_run, file_bytes, result, import_rec, kw_i, kw_count,
                   rank_records, skipped, rank_i, rank_count>>
    /\ UNCHANGED <<parserVars, downloadVars, mainVars>>

\* Every key has an id.
KeywordIdOf_Any(id_map, key) == Some(IdOf(<<key[1], key[2]>>))

\* Lines 142-145: keyword_id_map.get((asin_upper, keyword_lower)), None when
\* the key is not in the map.
KeywordIdOf(id_map, key) ==
    IF <<key[1], key[2]>> \in DOMAIN id_map THEN Some(id_map[<<key[1], key[2]>>]) ELSE None

\* Lines 149-160: the rank record of an entry of merged_ranks.
RankRecord(key, data, keyword_id, m_id, i_id) ==
    [keyword_id             |-> keyword_id,
     rank_date              |-> key[3],
     organic_rank           |-> data.organic_rank,
     organic_out_of_range   |-> data.organic_out_of_range,
     sponsored_rank         |-> data.sponsored_rank,
     sponsored_out_of_range |-> data.sponsored_out_of_range,
     marketplace_id         |-> m_id,
     child_asin             |-> data.asin,
     keyword                |-> data.keyword,
     import_id              |-> i_id]

\* Lines 138-160: the rank records of the entries whose key has an id; the
\* other entries are counted as skipped.
BuildRankRecords ==
    /\ c_pc = "build"
    /\ LET found == {k \in DOMAIN merged_ranks : KeywordIdOf(keyword_id_map, k) # None}
       IN  /\ rank_records' =
                {RankRecord(k, merged_ranks[k], KeywordIdOf(keyword_id_map, k)[1],
                            marketplace_id, import_id) : k \in found}
           /\ skipped' = Cardinality(DOMAIN merged_ranks \ found)
    /\ c_pc' = "upsert_ranks"
    /\ UNCHANGED <<country, dry_run, file_bytes, result, import_rec, calls, kw_i, kw_count,
                   keyword_id_map, rank_i, rank_count, exc>>
    /\ UNCHANGED <<parserVars, downloadVars, mainVars>>

\* Line 166 and db.py 225-229: upsert_ranks(rank_records) returns 0 for an
\* empty list.
UpsertRanks ==
    /\ c_pc = "upsert_ranks"
    /\ calls' = Append(calls, "upsert_ranks")
    /\ rank_i' = 0
    /\ rank_count' = 0
    /\ c_pc' = IF rank_records = {} THEN "update" ELSE "rank_batch"
    /\ UNCHANGED <<country, dry_run, file_bytes, result, import_rec, kw_i, kw_count,
                   keyword_id_map, rank_records, skipped, exc>>
    /\ UNCHANGED <<parserVars, downloadVars, mainVars>>

\* db.py 231-249: one batch of upsert_ranks, whose failure is raised again,
\* or the return of the total after the last batch.
RankBatch ==
    /\ c_pc = "rank_batch"
    /\ IF rank_i < Cardinality(rank_records)
         THEN \/ /\ rank_count' = rank_count + BatchLen(Cardinality(rank_records), rank_i,
                                                        RankBatchSize)
                 /\ rank_i' = rank_i + RankBatchSize
                 /\ UNCHANGED <<c_pc, exc>>
              \/ /\ ThrowInner("Exception: upsert_ranks")
                 /\ UNCHANGED <<rank_i, rank_count>>
         ELSE /\ c_pc' = "update"
              /\ UNCHANGED <<rank_i, rank_count, exc>>
    /\ UNCHANGED <<country, dry_run, file_bytes, result, import_rec, calls, kw_i, kw_count,
                   keyword_id_map, rank_records, skipped>>
    /\ UNCHANGED <<parserVars, downloadVars, mainVars>>

\* The counts are stored and the status is left as it was.
Completed_StatusKept(res, kw, filtered, ranks) ==
    [res EXCEPT !.keywords = kw, !.keywords_filtered = Some(filtered), !.ranks = ranks]

\* Lines 177-180: the result of a completed import.
Completed(res, kw, filtered, ranks) ==
    [res EXCEPT !.status = "completed", !.keywords = kw,
                !.keywords_filtered = Some(filtered), !.ranks = ranks]

\* Lines 170-180 and db.py 104-125: update_import_record(import_id,
\* status="completed", ...); when it returns the result is completed, and its
\* exception goes to the inner except clause.
UpdateCompleted ==
    /\ c_pc = "update"
    /\ calls' = Append(calls, "update_import_record(completed)")
    /\ \E o \in Outcomes :
         /\ import_rec' = Written(import_rec, "completed", o)
         /\ IF o = "ok"
              THEN /\ result' = Completed(result, kw_count, stats.keyword_filtered, rank_count)
                   /\ c_pc' = "returned"
                   /\ UNCHANGED exc
              ELSE /\ ThrowInner("Exception: update_import_record(completed)")
                   /\ UNCHANGED result
    /\ UNCHANGED <<country, dry_run, file_bytes, persistVars>>
    /\ UNCHANGED <<parserVars, downloadVars, mainVars>>

\* Lines 182-189: the inner except clause calls update_import_record(import_id,
\* status="failed", ...) and raises the exception again; an exception of the
\* update takes its place.
UpdateFailed ==
    /\ c_pc = "inner_except"
    /\ calls' = Append(calls, "update_import_record(failed)")
    /\ \E o \in Outcomes :
         /\ import_rec' = Written(import_rec, "failed", o)
         /\ exc' = IF o = "ok" THEN exc ELSE "Exception: update_import_record(failed)"
    /\ c_pc' = "except"
    /\ UNCHANGED <<country, dry_run, file_bytes, result, persistVars>>
    /\ UNCHANGED <<parserVars, downloadVars, mainVars>>

\* Lines 191-195: the outer except clause stores the message in the result,
\* which is returned with the status it was created with.
Failed ==
    /\ c_pc = "except"
    /\ result' = [result EXCEPT !.error = Some(exc)]
    /\ c_pc' = "returned"
    /\ UNCHANGED <<country, dry_run, file_bytes, import_rec, calls, persistVars, exc>>
    /\ UNCHANGED <<parserVars, downloadVars, mainVars>>

\* The steps of process_country and of the calls it makes.
ProcessCountry ==
    \/ CallDownload
    \/ Download
    \/ Downloaded
    \/ CreateImport
    \/ CallParse
    \/ Next
    \/ Parsed
    \/ UpsertKeywords
    \/ KeywordBatch
    \/ WaitForSync
    \/ FetchKeywordIds
    \/ BuildRankRecords
    \/ UpsertRanks
    \/ RankBatch
    \/ UpdateCompleted
    \/ UpdateFailed
    \/ Failed

\* The parser, the download and main at rest, the site with its files.
InitCountry ==
    /\ pc = "idle"
    /\ val = NoneCell
    /\ ret = NotCalled
    /\ has_organic = FALSE
    /\ has_sponsored = FALSE
    /\ organic_data = <<>>
    /\ sponsored_data = <<>>
    /\ marketplace_id = ""
    /\ import_id = ""
    /\ clock = 0
    /\ earlier = None
    /\ columns = <<>>
    /\ detected = NotDetected
    /\ ParseIdle
    /\ portal = PortalFiles
    /\ dl_pc = "idle"
    /\ max_retries = 0
    /\ attempt = 0
    /\ logged_in \in BOOLEAN
    /\ gets = 0
    /\ dl_failed = 0
    /\ waited = 0
    /\ dl_ret = Running
    /\ c_pc = "start"
    /\ country \in {ALL_COUNTRIES[i] : i \in 1..Len(ALL_COUNTRIES)}
    /\ dry_run \in BOOLEAN
    /\ file_bytes = None
    /\ result = NewResult(country)
    /\ import_rec = "none"
    /\ calls = <<>>
    /\ PersistIdle
    /\ exc = ""
    /\ MainIdle

NextCountry == ProcessCountry

SpecCountry == InitCountry /\ [][NextCountry]_vars


\* ------------------------------------------------------------------------
\* main (scripts/pull_rankings.py)
\* ------------------------------------------------------------------------

\* The countries of ALL_COUNTRIES a run without --country goes through.
MaxCountries == 2

\* pull_rankings.py line 56.
INTER_COUNTRY_DELAY == 5

\* The letters of a country code.
Spell(c) ==
    CASE c = "US" -> <<"U", "S">>
      [] c = "CA" -> <<"C", "A">>
      [] c = "UK" -> <<"U", "K">>
      [] c = "DE" -> <<"D", "E">>
      [] c = "FR" -> <<"F", "R">>
      [] c = "AU" -> <<"A", "U">>

\* Lines 231-232: the countries of ALL_COUNTRIES that args.country.upper() is.
Valid(text) == {i \in 1..Len(ALL_COUNTRIES) : Spell(ALL_COUNTRIES[i]) = Upper(text)}

\* Lines 229-235: the countries of the run, None for an invalid --country.
Selected(a) ==
    IF a.country = None \/ a.country = Some(<<>>)
      THEN Some(SubSeq(ALL_COUNTRIES, 1, MaxCountries))
    ELSE IF Valid(a.country[1]) = {} THEN None
    ELSE Some(<<ALL_COUNTRIES[CHOOSE i \in Valid(a.country[1]) : TRUE]>>)

\* What a step of main leaves alone of the parser and the download.
MainFrame == UNCHANGED <<parserVars, portal, dl_pc, max_retries, attempt, gets, dl_failed,
                         waited, dl_ret>>

\* sys.exit(code).
Exit(code) ==
    /\ exit_code' = Some(code)
    /\ m_pc' = "exited"

\* Lines 228-251: an invalid country or missing credentials end the run with
\* status 1.
ReadArgs ==
    /\ m_pc = "start"
    /\ IF Selected(args) = None \/ ~args.credentials
         THEN /\ Exit(1)
              /\ UNCHANGED countries
         ELSE /\ countries' = Selected(args)[1]
              /\ m_pc' = "login"
              /\ UNCHANGED exit_code
    /\ UNCHANGED <<args, m_i, results, alerts, total_keywords, total_ranks, m_waited, summary>>
    /\ UNCHANGED <<logged_in, countryVars>>
    /\ MainFrame

\* Lines 266-272: scraper.login() returns, or raises, which is alerted and
\* ends the run with status 1.
Login ==
    /\ m_pc = "login"
    /\ \/ /\ logged_in' = TRUE
          /\ m_pc' = "loop"
          /\ UNCHANGED <<alerts, exit_code>>
       \/ /\ alerts' = Append(alerts, <<"login_failure">>)
          /\ Exit(1)
          /\ UNCHANGED logged_in
    /\ UNCHANGED <<args, countries, m_i, results, total_keywords, total_ranks, m_waited,
                   summary>>
    /\ UNCHANGED countryVars
    /\ MainFrame

\* Lines 279-287: the next country of the list, after the delay when it is
\* not the first, or the end of the loop.
NextInList ==
    /\ m_pc = "loop"
    /\ IF m_i < Len(countries)
         THEN /\ m_waited' = m_waited + (IF m_i > 0 THEN INTER_COUNTRY_DELAY ELSE 0)
              /\ ProcessCalled(countries[m_i + 1], args.dry_run)
              /\ m_pc' = "country"
         ELSE /\ m_pc' = "summary"
              /\ UNCHANGED <<m_waited, countryVars>>
    /\ UNCHANGED <<args, countries, m_i, results, alerts, total_keywords, total_ranks, summary,
                   exit_code>>
    /\ UNCHANGED logged_in
    /\ MainFrame

\* Lines 288-294: the result is kept; a completed country adds to the
\* totals, any other is alerted.
CountryDone ==
    /\ m_pc = "country"
    /\ c_pc = "returned"
    /\ results' = Append(results, result)
    /\ IF result.status = "completed"
         THEN /\ total_keywords' = total_keywords + result.keywords
              /\ total_ranks' = total_ranks + result.ranks
              /\ UNCHANGED alerts
         ELSE /\ alerts' = Append(alerts, <<"country_failure", country, result.error>>)
              /\ UNCHANGED <<total_keywords, total_ranks>>
    /\ m_i' = m_i + 1
    /\ m_pc' = "loop"
    /\ UNCHANGED <<args, countries, m_waited, summary, exit_code>>
    /\ UNCHANGED <<logged_in, countryVars>>
    /\ MainFrame

\* No result counts as failed.
FailedOf_None(rs) == {}

\* Line 299: the results of status 'failed'.
FailedOf(rs) == {i \in 1..Len(rs) : rs[i].status = "failed"}

\* Lines 296-331: the summary is sent; the run ends with status 1 when a
\* country failed and with status 0 otherwise.
Summary ==
    /\ m_pc = "summary"
    /\ summary' = Some([results |-> results, total_keywords |-> total_keywords,
                        total_ranks |-> total_ranks])
    /\ Exit(IF FailedOf(results) # {} THEN 1 ELSE 0)
    /\ UNCHANGED <<args, countries, m_i, results, alerts, total_keywords, total_ranks,
                   m_waited>>
    /\ UNCHANGED <<logged_in, countryVars>>
    /\ MainFrame

\* The steps of main and of the calls it makes.
Main ==
    \/ ReadArgs
    \/ Login
    \/ NextInList
    \/ ProcessCountry
    \/ CountryDone
    \/ Summary

\* The values of --country tried: none, valid ones in either case, one that
\* is no country.
CountryArgs ==
    {None, Some(<<"U", "S">>), Some(<<"f", "r">>), Some(<<"X", "X">>)}

\* The files of the site during a run of main.
MainFiles ==
    {FileOf(100 * 1024, NoSheets), FileOf(500 * 1024, TwoKeywords)}

InitMain ==
    /\ pc = "idle"
    /\ val = NoneCell
    /\ ret = NotCalled
    /\ has_organic = FALSE
    /\ has_sponsored = FALSE
    /\ organic_data = <<>>
    /\ sponsored_data = <<>>
    /\ marketplace_id = ""
    /\ import_id = ""
    /\ clock = 0
    /\ earlier = None
    /\ columns = <<>>
    /\ detected = NotDetected
    /\ ParseIdle
    /\ portal = MainFiles
    /\ dl_pc = "idle"
    /\ max_retries = 0
    /\ attempt = 0
    /\ logged_in = FALSE
    /\ gets = 0
    /\ dl_failed = 0
    /\ waited = 0
    /\ dl_ret = Running
    /\ CountryIdle
    /\ m_pc = "start"
    /\ args \in {ArgsOf(c, d, e) : c \in CountryArgs, d \in BOOLEAN, e \in BOOLEAN}
    /\ countries = <<>>
    /\ m_i = 0
    /\ results = <<>>
    /\ alerts = <<>>
    /\ total_keywords = 0
    /\ total_ranks = 0
    /\ m_waited = 0
    /\ summary = None
    /\ exit_code = None

NextMain == Main

SpecMain == InitMain /\ [][NextMain]_vars


\* ------------------------------------------------------------------------
\* Properties of the cell classifier (under SpecClassify)
\* ------------------------------------------------------------------------

\* A returned pair (rank, is_out_of_range).
Pair(rank, oor) == [err |-> "", rank |-> rank, oor |-> oor]

Absent == Pair(None, FALSE)

OutOfRange == Pair(None, TRUE)

Text(s) == StrCell(s)

\* The cell is None, an empty or blank string, or NaN.
BlankCell(v) ==
    \/ v.t = "None"
    \/ IsNaN(v)
    \/ v.t = "str" /\ Strip(v.s) = <<>>

\* The cell has a truncated integer: its trimmed text parses to a finite float.
Numeric(v) ==
    LET f == ParseFloat(Strip(Str(v))) IN f.ok /\ f.kind = "fin"

Truncated(v) ==
    LET f == ParseFloat(Strip(Str(v))) IN IF f.neg THEN -f.ip ELSE f.ip

\* The pair the contract gives a cell, decided in the order of the contract.
Contract(v) ==
    IF BlankCell(v) THEN Absent
    ELSE IF EndsWith(Strip(Str(v)), "+") THEN OutOfRange
    ELSE IF Numeric(v)
      THEN IF 1 <= Truncated(v) /\ Truncated(v) <= 306
             THEN Pair(Some(Truncated(v)), FALSE) ELSE OutOfRange
    ELSE Absent

\* C1: for every cell, parse_rank_value returns one of (absent,false),
\* (absent,true), (rank,false) with 1 <= rank <= 306, decided in this order:
\* None, blank and NaN give (absent,false); a trimmed text ending in '+' gives
\* (absent,true); a value that parses numerically gives (n,false) when its
\* truncated integer n is in [1,306] and (absent,true) otherwise; anything
\* else gives (absent,false).
C1_ClassifierContract ==
    pc = "classified" =>
        /\ ret = Contract(val)
        /\ ret.rank # None => (~ret.oor /\ ret.rank[1] \in 1..306)

\* C2, as documented: classify("97+") = (absent,true), classify("") =
\* (absent,false), classify(None) = (absent,false), classify("150") =
\* (absent,true), classify("42") = (42,false).
C2_DocumentedExamples ==
    pc = "classified" =>
        /\ val = Text(<<"9", "7", "+">>) => ret = OutOfRange
        /\ val = Text(<<>>) => ret = Absent
        /\ val = NoneCell => ret = Absent
        /\ val = Text(<<"1", "5", "0">>) => ret = OutOfRange
        /\ val = Text(<<"4", "2">>) => ret = Pair(Some(42), FALSE)

\* C2, as the code has it: classify("97+") = (absent,true), classify("") =
\* (absent,false), classify(None) = (absent,false), classify("150") =
\* (150,false), 150 being inside [1,306], classify("42") = (42,false).
C2_Examples ==
    pc = "classified" =>
        /\ val = Text(<<"9", "7", "+">>) => ret = OutOfRange
        /\ val = Text(<<>>) => ret = Absent
        /\ val = NoneCell => ret = Absent
        /\ val = Text(<<"1", "5", "0">>) => ret = Pair(Some(150), FALSE)
        /\ val = Text(<<"4", "2">>) => ret = Pair(Some(42), FALSE)

\* The cell "150" has been classified as the rank 150.
C2_Rank150 ==
    /\ pc = "classified"
    /\ val = Text(<<"1", "5", "0">>)
    /\ ret.rank = Some(150)
    /\ ~ret.oor

\* C3: parse_rank_value is total: whatever the cell (None, NaN, blank or free
\* text, numbers and numeric strings of any magnitude, the ones that parse to
\* an infinite float included) the call returns a pair and raises nothing.
C3_Total ==
    pc = "classified" => ret.err = ""


\* ------------------------------------------------------------------------
\* Properties of parse_excel (under Spec)
\* ------------------------------------------------------------------------

\* The keyword pass is over.
Merged == pc \in {"ranks", "returned"}

\* The EntityKey of a data row, None for a row without an ASIN or a keyword.
KeyOfRow(row) ==
    LET a == StrField(row, col_indices, ASIN, 0)
        k == StrField(row, col_indices, Keyword, 3)
    IN  IF a.err # "" \/ k.err # "" \/ a.v = <<>> \/ k.v = <<>> THEN None
        ELSE Some(<<Upper(a.v), Lower(k.v)>>)

\* The rows of a sheet that have the key, in the order of the sheet.
RowsOfKey(sheet_data, key) ==
    SelectSeq(DataRows(sheet_data), LAMBDA row : KeyOfRow(row) = Some(key))

AllRows == DataRows(organic_data) \o DataRows(sponsored_data)

\* The EntityKey of a keyword record.
RecKey(rec) == <<Upper(rec.child_asin), Lower(rec.keyword)>>

\* The record made of the fields of one row, the time of writing set aside.
RowRecord(row) ==
    kw_record(row, col_indices, StrField(row, col_indices, ASIN, 0).v,
              StrField(row, col_indices, Keyword, 3).v, sorted_dates,
              marketplace_id, import_id, 0).rec

\* Every field of the record is the field of that row.
FromRow(rec, row) == [rec EXCEPT !.updated_at = 0] = RowRecord(row)

\* The row a key's record is owed to: its last Organic row, or without one
\* its first Sponsored row.
OwedRow(key) ==
    LET o == RowsOfKey(organic_data, key)
        s == RowsOfKey(sponsored_data, key)
    IN  IF o # <<>> THEN o[Len(o)] ELSE s[1]

InBothSheets(key) ==
    RowsOfKey(organic_data, key) # <<>> /\ RowsOfKey(sponsored_data, key) # <<>>

\* C4: entity merge precedence.  Every key of a row of either sheet has a
\* merged record; for a key that is in both sheets every field of the record
\* is the field of the Organic row (Title and SKU carry the Organic sheet's
\* stamp) and none is the Sponsored row's; a key of one sheet only has the
\* record of that sheet's row.  The returned records are records of that map.
C4_OrganicPrecedence ==
    Merged =>
        /\ \A r \in 1..Len(AllRows) :
              KeyOfRow(AllRows[r]) # None => HasKey(keyword_map, KeyOfRow(AllRows[r])[1])
        /\ \A i \in 1..Len(keyword_map) :
              LET key == keyword_map[i].key
                  rec == keyword_map[i].rec
              IN  /\ RowsOfKey(organic_data, key) # <<>> \/ RowsOfKey(sponsored_data, key) # <<>>
                  /\ FromRow(rec, OwedRow(key))
                  /\ rec.title # None
                  /\ rec.title[1][1] = (IF RowsOfKey(organic_data, key) # <<>> THEN "O" ELSE "S")
                  /\ InBothSheets(key) =>
                        \A j \in 1..Len(RowsOfKey(sponsored_data, key)) :
                            ~FromRow(rec, RowsOfKey(sponsored_data, key)[j])
        /\ \A j \in 1..Len(keyword_records) :
              \E i \in 1..Len(keyword_map) : keyword_records[j] = keyword_map[i].rec

\* parse_excel has returned the record of a key of both sheets, whose
\* Sponsored row has another tracked flag or spend than its Organic row.
C4_KeyInBothSheets ==
    /\ pc = "returned"
    /\ \E j \in 1..Len(keyword_records) :
          LET key == RecKey(keyword_records[j])
              s   == RowsOfKey(sponsored_data, key)
          IN  /\ InBothSheets(key)
              /\ RowRecord(s[1]).tracked # keyword_records[j].tracked
              /\ RowRecord(s[1]).spent # keyword_records[j].spent

\* C5: the returned keyword records hold at most one record per EntityKey,
\* the ASIN compared upper-cased and the keyword lower-cased, whatever the
\* rows of the two sheets and their order.
C5_OneRecordPerKey ==
    Merged =>
        \A i, j \in 1..Len(keyword_records) :
            i # j => RecKey(keyword_records[i]) # RecKey(keyword_records[j])

\* parse_excel has returned the one record of a key that two rows spell in
\* different letter case.
C5_CaseVariants ==
    /\ pc = "returned"
    /\ Len(keyword_records) = 1
    /\ \E a, b \in 1..Len(AllRows) :
          /\ AllRows[a][1] # AllRows[b][1]
          /\ AllRows[a][4] # AllRows[b][4]
          /\ KeyOfRow(AllRows[a]) = Some(RecKey(keyword_records[1]))
          /\ KeyOfRow(AllRows[b]) = Some(RecKey(keyword_records[1]))

\* The spend of a record is present and greater than 0.
SpendPositive(rec) == rec.spent # None /\ FloatPositive(rec.spent[1])

Returned(rec) == \E j \in 1..Len(keyword_records) : keyword_records[j] = rec

\* C6: retention.  A merged record is among the returned keyword records if
\* and only if it is tracked or its spend is present and greater than 0; the
\* filter reads the merged record, so a key whose Organic row is untracked
\* with a spend of 0 or none is filtered out whatever the spend of its
\* Sponsored row.
C6_Retention ==
    Merged =>
        /\ \A i \in 1..Len(keyword_map) :
              Returned(keyword_map[i].rec)
                <=> (keyword_map[i].rec.tracked \/ SpendPositive(keyword_map[i].rec))
        /\ \A j \in 1..Len(keyword_records) :
              \E i \in 1..Len(keyword_map) : keyword_records[j] = keyword_map[i].rec
        /\ filtered_count = Len(keyword_map) - Len(keyword_records)
        /\ \A r \in 1..Len(DataRows(organic_data)) :
              LET row == DataRows(organic_data)[r]
                  key == KeyOfRow(row)
              IN  (/\ key # None
                   /\ row = OwedRow(key[1])
                   /\ ~RowRecord(row).tracked
                   /\ ~SpendPositive(RowRecord(row)))
                  => \A j \in 1..Len(keyword_records) : RecKey(keyword_records[j]) # key[1]

\* parse_excel has returned without the record of a key whose Sponsored row
\* has a spend above 0 and whose Organic row is untracked with no spend
\* above 0, and with the record of an untracked key that has a spend.
C6_SponsoredSpendDropped ==
    /\ pc = "returned"
    /\ \E r \in 1..Len(DataRows(sponsored_data)) :
          LET row == DataRows(sponsored_data)[r]
              key == KeyOfRow(row)
          IN  /\ key # None
              /\ SpendPositive(RowRecord(row))
              /\ RowsOfKey(organic_data, key[1]) # <<>>
              /\ ~RowRecord(OwedRow(key[1])).tracked
              /\ ~SpendPositive(RowRecord(OwedRow(key[1])))
              /\ \A j \in 1..Len(keyword_records) : RecKey(keyword_records[j]) # key[1]
    /\ filtered_count > 0

\* C7: cross-filter safety.  Every key (asin, keyword, date) of the returned
\* merged_ranks has its (asin, keyword) among the keys of the returned keyword
\* records: no measurement of a filtered-out keyword is returned, valid rank
\* or not.
C7_CrossFilterSafety ==
    pc = "returned" =>
        \A k \in DOMAIN merged_ranks :
            \E j \in 1..Len(keyword_records) : RecKey(keyword_records[j]) = <<k[1], k[2]>>

\* The cell of a row in the column a canonical date resolves to holds a rank
\* or an out-of-range marker.
HasData(row, date_col) ==
    LET idx == DateIdx(col_indices, date_col_map, date_col)
    IN  /\ idx # None
        /\ idx[1] < Len(row)
        /\ parse_rank_value(row[idx[1] + 1]).err = ""
        /\ \/ parse_rank_value(row[idx[1] + 1]).rank # None
           \/ parse_rank_value(row[idx[1] + 1]).oor

\* parse_excel has returned measurements and has dropped the measurement of
\* a filtered-out keyword whose row holds a valid rank.
C7_ValidRankDropped ==
    /\ pc = "returned"
    /\ rank_filtered > 0
    /\ DOMAIN merged_ranks # {}
    /\ \E r \in 1..Len(AllRows), d \in 1..Len(sorted_dates) :
          LET key == KeyOfRow(AllRows[r])
              idx == DateIdx(col_indices, date_col_map, sorted_dates[d])
          IN  /\ key # None
              /\ \A j \in 1..Len(keyword_records) : RecKey(keyword_records[j]) # key[1]
              /\ HasData(AllRows[r], sorted_dates[d])
              /\ parse_rank_value(AllRows[r][idx[1] + 1]).rank # None

\* C8: measurement existence.  For every returned (asin, keyword) and every
\* canonical date, the returned merged_ranks holds a record of that triple if
\* and only if a row of either sheet with that key has, in the column the date
\* resolves to, a cell that classifies to a rank or to out-of-range; and every
\* returned measurement has an organic rank, an organic out-of-range marker,
\* a sponsored rank or a sponsored out-of-range marker.
C8_MeasurementExistence ==
    pc = "returned" =>
        /\ \A j \in 1..Len(keyword_records), d \in 1..Len(sorted_dates) :
              LET key == RecKey(keyword_records[j])
              IN  (<<key[1], key[2], sorted_dates[d]>> \in DOMAIN merged_ranks)
                    <=> \E r \in 1..Len(AllRows) :
                          /\ KeyOfRow(AllRows[r]) = Some(key)
                          /\ HasData(AllRows[r], sorted_dates[d])
        /\ \A k \in DOMAIN merged_ranks :
              \/ merged_ranks[k].organic_rank # None
              \/ merged_ranks[k].organic_out_of_range
              \/ merged_ranks[k].sponsored_rank # None
              \/ merged_ranks[k].sponsored_out_of_range

\* parse_excel has returned, for one keyword, a measurement made by an
\* out-of-range marker alone and no measurement for another date.
C8_MarkerAndGap ==
    /\ pc = "returned"
    /\ \E j \in 1..Len(keyword_records), d, e \in 1..Len(sorted_dates) :
          LET key == RecKey(keyword_records[j])
              kd  == <<key[1], key[2], sorted_dates[d]>>
              ke  == <<key[1], key[2], sorted_dates[e]>>
          IN  /\ kd \in DOMAIN merged_ranks
              /\ merged_ranks[kd].organic_rank = None
              /\ merged_ranks[kd].sponsored_rank = None
              /\ ke \notin DOMAIN merged_ranks

\* The four schema faults of a workbook, each in the absence of the ones
\* before it.
NoSheet == ~has_organic /\ ~has_sponsored

NoDataRow == ~NoSheet /\ Len(primary_data) < 2

HasColumn(name) ==
    \E i \in 1..Len(primary_data[1]) :
        primary_data[1][i].t # "None" /\ Strip(Str(primary_data[1][i])) = name

NoRequiredColumn ==
    /\ ~NoSheet
    /\ ~NoDataRow
    /\ \E name \in {ASIN, SKU, Title, Keyword, Tracked} : ~HasColumn(name)

IsDateHeader(cell) ==
    /\ cell.t # "None"
    /\ Len(Strip(Str(cell))) >= 10
    /\ DATE_PATTERN(Prefix(Strip(Str(cell)), 10))

NoDateColumn ==
    /\ ~NoSheet
    /\ ~NoDataRow
    /\ ~NoRequiredColumn
    /\ \A i \in 1..Len(primary_data[1]) : ~IsDateHeader(primary_data[1][i])

SchemaFault == NoSheet \/ NoDataRow \/ NoRequiredColumn \/ NoDateColumn

\* The call is at a step of the validation not past the one given, or has
\* ended with the error given.
FailsBy(steps, e) ==
    /\ pc \in steps \cup {"raised"}
    /\ pc = "raised" => error = e

C10_OnlySchemaErrors ==
    pc = "raised" =>
        /\ SchemaFault
        /\ error \in {"ValueError: Excel file has no 'Organic' or 'Sponsored' sheet",
                      "ValueError: Primary sheet is empty or has no data rows",
                      "ValueError: Missing required columns",
                      "ValueError: No date columns found in headers"}

\* The sheet the claim of C11 calls primary: Organic whenever the workbook
\* has that sheet, Sponsored only otherwise.
PreferredSheet == IF has_organic THEN organic_data ELSE sponsored_data

\* C11: primary sheet selection and validation.  The column index and the
\* date columns are taken from the Organic sheet whenever it is present and
\* from the Sponsored sheet only otherwise, and parse_excel gets past the
\* validation only if that sheet has a header row and a data row; a workbook
\* whose Organic sheet is present without data rows fails whether or not the
\* Sponsored sheet has data.
C11_PrimaryIsOrganicWhenPresent ==
    pc \notin {"open", "primary", "raised"} =>
        /\ Len(PreferredSheet) >= 2
        /\ pc # "headers" => headers = HeaderStrings(PreferredSheet[1])

\* The keyword records with the time of writing set aside.
Untimed(records) == [i \in 1..Len(records) |-> [records[i] EXCEPT !.updated_at = 0]]

SecondReturn == pc = "returned" /\ earlier # None

\* C12, as claimed: two calls of parse_excel on the same file bytes,
\* marketplace id and import id return the same keyword records in every
\* field, the same merged_ranks, the same sorted_dates and the same stats.
C12_SameOutput ==
    SecondReturn => earlier[1] = Output

\* C12, as the code has it: the two calls return the same merged_ranks, the
\* same sorted_dates, the same stats and the same keyword records in every
\* field but updated_at, which is the time datetime.utcnow() gave the call.
C12_SameOutputButTime ==
    SecondReturn =>
        /\ Untimed(earlier[1].keyword_records) = Untimed(keyword_records)
        /\ earlier[1].merged_ranks = merged_ranks
        /\ earlier[1].sorted_dates = sorted_dates
        /\ earlier[1].stats = stats

\* The second call has returned keyword records and measurements, the
\* records with another updated_at than the first call's.
C12_SecondCallLater ==
    /\ SecondReturn
    /\ Len(keyword_records) > 0
    /\ DOMAIN merged_ranks # {}
    /\ Len(earlier[1].keyword_records) = Len(keyword_records)
    /\ \A i \in 1..Len(keyword_records) :
          earlier[1].keyword_records[i].updated_at # keyword_records[i].updated_at

\* The day a header cell of Headers stands for, None for the others.
DayOf(cell) ==
    IF \E d \in Days : cell \in DateForms(d)
      THEN Some(CHOOSE d \in Days : cell \in DateForms(d))
      ELSE None

\* The days of the cells of a header, in the order of the header.
RECURSIVE DaysOf(_)
DaysOf(cols) ==
    IF cols = <<>> THEN <<>>
    ELSE DaysOf(SubSeq(cols, 1, Len(cols) - 1)) \o DayOf(cols[Len(cols)])

\* The parse_excel call is past the detection of the date columns.
DatesFound == pc \in {"keywords", "ranks", "returned"}

\* C13: date normalization.  The literal string of a day, a timestamp object
\* of the day and a string of the day followed by a time of day all normalize
\* to the one canonical string of the day; a header cell of none of the three
\* forms contributes no date; and in parse_excel every canonical date found
\* resolves to a position of the header row, whose cell is a form of that
\* date.
C13_DateNormalization ==
    /\ pc = "detected" =>
          /\ detected.date_strs = DaysOf(columns)
          /\ DOMAIN detected.col_map = {detected.date_strs[i] : i \in 1..Len(detected.date_strs)}
          /\ \A d \in DOMAIN detected.col_map : detected.col_map[d] \in DateForms(d)
    /\ DatesFound =>
          /\ sorted_dates # <<>>
          /\ \A i \in 1..Len(sorted_dates) :
                /\ sorted_dates[i] \in Days
                /\ DateIdx(col_indices, date_col_map, sorted_dates[i]) # None
                /\ DateIdx(col_indices, date_col_map, sorted_dates[i])[1] < Len(primary_data[1])
                /\ Prefix(Strip(Str(primary_data[1]
                                      [DateIdx(col_indices, date_col_map, sorted_dates[i])[1] + 1])),
                          10) = sorted_dates[i]

\* detect_date_columns has given one canonical date twice, for a timestamp
\* object and for a string of the same day with a time of day.
C13_ThreeFormsOneDate ==
    /\ pc = "detected"
    /\ Len(columns) = 2
    /\ columns[1].t = "datetime"
    /\ columns[2].t = "str"
    /\ Len(columns[2].s) > 10
    /\ detected.date_strs = <<Date1, Date1>>

\* The rank pass of lines 324-366 over the rows of work in the order of
\* work, for rows that raise nothing: [err, merged, oc, sc].
RankRowOf(acc, w) ==
    IF KeyOfRow(w.row) = None THEN acc
    ELSE RankDates(acc, w.row, col_indices, date_col_map,
                   StrField(w.row, col_indices, ASIN, 0).v,
                   StrField(w.row, col_indices, Keyword, 3).v,
                   w.sheet = "Organic", sorted_dates)

RECURSIVE RankPass(_, _)
RankPass(acc, work) ==
    IF work = <<>> THEN acc ELSE RankPass(RankRowOf(acc, work[1]), Tail(work))

\* The merged_ranks parse_excel would return with the Sponsored sheet
\* processed before the Organic sheet in the rank pass.
SponsoredFirst ==
    CrossFilter(RankPass([err |-> "", merged |-> EmptyDict, oc |-> 0, sc |-> 0],
                         SheetWork(sponsored_data, "Sponsored")
                           \o SheetWork(organic_data, "Organic")).merged,
                kept_keyword_keys)

\* The four facets of a measurement.
Facets(m) ==
    <<m.organic_rank, m.organic_out_of_range, m.sponsored_rank, m.sponsored_out_of_range>>

\* C14, as claimed: processing the Sponsored sheet before the Organic sheet
\* in the rank pass gives the same final merged_ranks, the same keys and for
\* every key the same record, the four facets and the asin, keyword and date
\* copies, also when the rows of a key differ in letter case.
C14_OrderIrrelevant ==
    pc = "returned" => merged_ranks = SponsoredFirst

\* C14, as the code has it: processing the Sponsored sheet first gives the
\* same keys and for every key the same four facets and the same date; the
\* asin and keyword copies are the same up to letter case, being the text of
\* the row that created the record.
C14_FacetsOrderIrrelevant ==
    pc = "returned" =>
        /\ DOMAIN merged_ranks = DOMAIN SponsoredFirst
        /\ \A k \in DOMAIN merged_ranks :
              /\ Facets(merged_ranks[k]) = Facets(SponsoredFirst[k])
              /\ merged_ranks[k].date = SponsoredFirst[k].date
              /\ Upper(merged_ranks[k].asin) = Upper(SponsoredFirst[k].asin)
              /\ Lower(merged_ranks[k].keyword) = Lower(SponsoredFirst[k].keyword)

\* parse_excel has returned a measurement with the facets of both sheets,
\* made of rows that spell the key in different letter case.
C14_BothFacetsTwoSpellings ==
    /\ pc = "returned"
    /\ \E k \in DOMAIN merged_ranks :
          /\ merged_ranks[k].organic_rank # None \/ merged_ranks[k].organic_out_of_range
          /\ merged_ranks[k].sponsored_rank # None \/ merged_ranks[k].sponsored_out_of_range
          /\ merged_ranks[k].asin # SponsoredFirst[k].asin
          /\ Facets(merged_ranks[k]) = Facets(SponsoredFirst[k])

\* A measurement without the facet of one sheet.
WithoutFacet(m, sheet) ==
    IF sheet = "Organic"
      THEN [m EXCEPT !.organic_rank = None, !.organic_out_of_range = FALSE]
      ELSE [m EXCEPT !.sponsored_rank = None, !.sponsored_out_of_range = FALSE]

\* A step of the rank pass that has processed one row.
RowProcessed == pc = "ranks" /\ pc' = "ranks" /\ row_i' = row_i + 1

\* The row leaves every record there was in place, and every record after it
\* is, but for the facet of the row's sheet, the record before it or a new
\* record without any rank.
RowKeepsOtherFacet ==
    /\ DOMAIN merged_ranks \subseteq DOMAIN merged_ranks'
    /\ \A k \in DOMAIN merged_ranks' :
          WithoutFacet(merged_ranks'[k], RankWork[row_i + 1].sheet)
            = WithoutFacet(IF k \in DOMAIN merged_ranks THEN merged_ranks[k]
                           ELSE NewRank(merged_ranks'[k].asin, merged_ranks'[k].keyword, k[3]),
                           RankWork[row_i + 1].sheet)

\* C15: facet frame.  A row of the Organic sheet changes only organic_rank
\* and organic_out_of_range of a measurement and a row of the Sponsored sheet
\* only sponsored_rank and sponsored_out_of_range; so without a Sponsored
\* sheet every returned measurement has no sponsored rank and no sponsored
\* out-of-range marker, and the same for the organic facet without an
\* Organic sheet.
C15_FacetFrame ==
    /\ [][RowProcessed => RowKeepsOtherFacet]_vars
    /\ [](pc = "returned" =>
            \A k \in DOMAIN merged_ranks :
                /\ ~has_sponsored =>
                      /\ merged_ranks[k].sponsored_rank = None
                      /\ ~merged_ranks[k].sponsored_out_of_range
                /\ ~has_organic =>
                      /\ merged_ranks[k].organic_rank = None
                      /\ ~merged_ranks[k].organic_out_of_range)

\* parse_excel has returned, for a workbook without a Sponsored sheet, a
\* measurement of organic rank 5 and a measurement of an organic
\* out-of-range marker.
C15_OrganicOnly ==
    /\ pc = "returned"
    /\ has_organic
    /\ ~has_sponsored
    /\ \E k \in DOMAIN merged_ranks :
          merged_ranks[k].organic_rank = Some(5) /\ ~merged_ranks[k].organic_out_of_range
    /\ \E k \in DOMAIN merged_ranks :
          merged_ranks[k].organic_rank = None /\ merged_ranks[k].organic_out_of_range

\* ------------------------------------------------------------------------
\* download_rankings: attempts and outcome
\* ------------------------------------------------------------------------

\* C16: download_rankings with max_retries = n makes at most n attempts,
\* returns the bytes of the first attempt that succeeds without a further
\* attempt, raises once all n attempts have failed, and for every n ends by
\* returning file bytes or by raising, never by returning nothing.
C16_BytesOrRaise ==
    /\ attempt = 0 \/ attempt <= max_retries
    /\ dl_failed <= attempt
    /\ dl_ret.how = "returned" /\ dl_ret.bytes # None =>
         /\ dl_ret.bytes[1] \in portal
         /\ dl_failed = attempt - 1
    /\ DownloadEnded /\ attempt > 0 /\ dl_failed = max_retries => dl_ret.how = "raised"
    /\ DownloadEnded => dl_ret.how = "raised" \/ dl_ret.bytes # None

\* ------------------------------------------------------------------------
\* process_country: dry run, import record, persist order
\* ------------------------------------------------------------------------

\* process_country has called fn of scripts/utils/db.py.
Called(fn) == \E i \in 1..Len(calls) : calls[i] = fn

\* The download of the running call returned a file that passes the size check.
PassedSizeCheck ==
    /\ dl_ret.how = "returned"
    /\ dl_ret.bytes # None
    /\ ~(dl_ret.bytes[1].size < COUNTRY_MIN_SIZE[country])

\* The download of the running call raised or returned too small a file.
DownloadRefused ==
    \/ dl_ret.how = "raised"
    \/ /\ dl_ret.how = "returned"
       /\ dl_ret.bytes # None
       /\ dl_ret.bytes[1].size < COUNTRY_MIN_SIZE[country]

\* C17: a dry run whose download passes the size check returns 'completed'
\* with 0 keywords and 0 ranks and calls nothing of the database: no import
\* record, no upsert, no id fetch; a download that fails or is too small
\* returns 'failed' without an import record, dry run or not.
C17_DryRunTouchesNothing ==
    /\ dry_run => calls = <<>> /\ import_rec = "none"
    /\ c_pc = "returned" /\ dry_run /\ PassedSizeCheck =>
         /\ result.status = "completed"
         /\ result.keywords = 0
         /\ result.ranks = 0
    /\ c_pc = "returned" /\ DownloadRefused =>
         /\ result.status = "failed"
         /\ calls = <<>>
         /\ import_rec = "none"

\* A dry run has returned after a download that passed the size check.
C17_DryRunReturned ==
    /\ c_pc = "returned"
    /\ dry_run
    /\ PassedSizeCheck
    /\ result.status = "completed"

\* The exceptions of the requests that write the import record.
CreateRaised == Some("Exception: create_import_record")

CloseRaised == Some("Exception: update_import_record(failed)")

WithId == {k \in DOMAIN merged_ranks : <<k[1], k[2]>> \in DOMAIN keyword_id_map}

\* The rank record r was built from the entry of key k.
BuiltFrom(r, k) ==
    /\ r.rank_date = k[3]
    /\ <<Upper(r.child_asin), Lower(r.keyword)>> = <<k[1], k[2]>>

\* C20: upsert_ranks is called only after upsert_keywords has returned for
\* all batches, the sync wait has elapsed and fetch_keyword_ids has returned;
\* every rank record sent carries the id its (ASIN upper, keyword lower) key
\* has in the fetched map, and an entry whose key has no id is skipped and
\* never sent.
C20_PersistOrder ==
    Called("upsert_ranks") =>
        /\ SubSeq(calls, 1, 5) = <<"create_import_record", "upsert_keywords",
                                   "wait_for_db_sync", "fetch_keyword_ids", "upsert_ranks">>
        /\ kw_i >= Len(keyword_records)
        /\ kw_count = Len(keyword_records)
        /\ \A r \in rank_records :
             \E k \in WithId :
                /\ BuiltFrom(r, k)
                /\ r.keyword_id = keyword_id_map[<<k[1], k[2]>>]
        /\ \A k \in DOMAIN merged_ranks \ WithId :
             \A r \in rank_records : ~BuiltFrom(r, k)
        /\ skipped = Cardinality(DOMAIN merged_ranks \ WithId)

\* upsert_ranks was called with the records of one keyword while the entries
\* of another keyword were skipped.
C20_SentAndSkipped ==
    /\ Called("upsert_ranks")
    /\ rank_records # {}
    /\ skipped > 0

\* ------------------------------------------------------------------------
\* main: every country is processed, failures are alerted, the exit status
\* ------------------------------------------------------------------------

\* The countries of the results so far, in order.
Processed == [i \in 1..Len(results) |-> results[i].country]

IsCountryAlert(a) == a[1] = "country_failure"

NotCompleted(r) == r.status # "completed"

\* The countries alert_country_failure was called for, in order.
Alerted ==
    LET sent == SelectSeq(alerts, IsCountryAlert)
    IN  [i \in 1..Len(sent) |-> sent[i][2]]

\* The countries whose result is not 'completed', in order.
Unfinished ==
    LET rs == SelectSeq(results, NotCompleted)
    IN  [i \in 1..Len(rs) |-> rs[i].country]

\* main has gone through its loop and ended.
RunEnded == m_pc = "exited" /\ summary # None

\* C19: after a successful login every country of the selected list is
\* processed exactly once, in list order, whether or not earlier countries
\* failed; alert_country_failure is called exactly once for each country
\* whose result is not 'completed' and for no other; the process exits with
\* a non-zero status if and only if at least one country failed.
C19_EveryCountryOnce ==
    /\ Processed = SubSeq(countries, 1, m_i)
    /\ m_pc = "country" => country = countries[m_i + 1]
    /\ Alerted = Unfinished
    /\ RunEnded =>
         /\ Processed = countries
         /\ exit_code # Some(0) <=> \E i \in 1..Len(results) : results[i].status = "failed"

\* A run in which the first country failed and the second was completed.
C19_SecondAfterFailedFirst ==
    /\ RunEnded
    /\ Len(results) = 2
    /\ results[1].status = "failed"
    /\ results[2].status = "completed"
    /\ exit_code = Some(1)
    /\ Alerted = <<countries[1]>>

\* ------------------------------------------------------------------------
\* parse_excel: several rows of one key in one sheet
\* ------------------------------------------------------------------------

\* Two data rows of the sheet have the same key.
HasDuplicates(sheet_data) ==
    \E i, j \in 1..Len(DataRows(sheet_data)) :
        /\ i < j
        /\ KeyOfRow(DataRows(sheet_data)[i]) # None
        /\ KeyOfRow(DataRows(sheet_data)[i]) = KeyOfRow(DataRows(sheet_data)[j])

\* The rows of a sheet that have the key and data in the column of the
\* date, in the order of the sheet.
DataRowsOfKey(sheet_data, key, date_col) ==
    SelectSeq(RowsOfKey(sheet_data, key), LAMBDA row : HasData(row, date_col))

\* The classification of the cell of a row in the column of the date.
CellOf(row, date_col) ==
    parse_rank_value(row[DateIdx(col_indices, date_col_map, date_col)[1] + 1])

\* The facet is the classification of the last of the rows.
FacetOfLast(rank, oor, rows, date_col) ==
    rows # <<>> =>
        /\ rank = CellOf(rows[Len(rows)], date_col).rank
        /\ oor = CellOf(rows[Len(rows)], date_col).oor

\* C21: when a sheet holds several rows of one (asin, keyword) key the merge
\* does not fail, and for each date the facet of that sheet holds the
\* classification of the last row, in sheet order, whose cell of that date
\* holds data.
C21_LastRowWins ==
    /\ HasDuplicates(organic_data) \/ HasDuplicates(sponsored_data) => pc # "raised"
    /\ pc = "returned" =>
         \A k \in DOMAIN merged_ranks :
            /\ FacetOfLast(merged_ranks[k].organic_rank, merged_ranks[k].organic_out_of_range,
                           DataRowsOfKey(organic_data, <<k[1], k[2]>>, k[3]), k[3])
            /\ FacetOfLast(merged_ranks[k].sponsored_rank,
                           merged_ranks[k].sponsored_out_of_range,
                           DataRowsOfKey(sponsored_data, <<k[1], k[2]>>, k[3]), k[3])

\* parse_excel has returned a measurement one sheet has two rows with data
\* for, of different classifications.
C21_TwoRowsOneCell ==
    /\ pc = "returned"
    /\ \E k \in DOMAIN merged_ranks :
          LET o == DataRowsOfKey(organic_data, <<k[1], k[2]>>, k[3])
          IN  /\ Len(o) = 2
              /\ CellOf(o[1], k[3]) # CellOf(o[2], k[3])
              /\ merged_ranks[k].organic_rank = CellOf(o[2], k[3]).rank

\* No row of rows but the one at position n made the record.
OnlyFrom(rec, rows, n) ==
    /\ FromRow(rec, rows[n])
    /\ \A j \in 1..Len(rows) : j # n => ~FromRow(rec, rows[j])

\* C22: among several Organic rows of one key the values of the last row are
\* the final record, an Organic row replacing the record of its key
\* unconditionally; a Sponsored row is inserted only when its key is new, so
\* a key of the Sponsored sheet only ends with the values of its first
\* Sponsored row.
C22_LastOrganicFirstSponsored ==
    Merged =>
        \A i \in 1..Len(keyword_map) :
            LET o == RowsOfKey(organic_data, keyword_map[i].key)
                s == RowsOfKey(sponsored_data, keyword_map[i].key)
            IN  IF o # <<>> THEN OnlyFrom(keyword_map[i].rec, o, Len(o))
                ELSE s # <<>> /\ OnlyFrom(keyword_map[i].rec, s, 1)

\* parse_excel has returned the record of a key that has two rows in one
\* sheet and none in the other, which differ in the tracked flag.
C22_TwoRowsOneKey ==
    /\ pc = "returned"
    /\ \E j \in 1..Len(keyword_records) :
          LET o == RowsOfKey(organic_data, RecKey(keyword_records[j]))
              s == RowsOfKey(sponsored_data, RecKey(keyword_records[j]))
          IN  \/ /\ Len(o) = 2
                 /\ RowRecord(o[1]).tracked # RowRecord(o[2]).tracked
                 /\ keyword_records[j].tracked = RowRecord(o[2]).tracked
              \/ /\ o = <<>>
                 /\ Len(s) = 2
                 /\ RowRecord(s[1]).tracked # RowRecord(s[2]).tracked
                 /\ keyword_records[j].tracked = RowRecord(s[1]).tracked

\* ------------------------------------------------------------------------
\* parse_excel: the dates returned
\* ------------------------------------------------------------------------

\* The elements of a sequence.
Elements(sq) == {sq[i] : i \in 1..Len(sq)}

\* No date of ds is less than d.
IsMinimum(d, ds) == d \in ds /\ \A e \in ds : ~StrLess(e, d)

\* No date of ds is greater than d.
IsMaximum(d, ds) == d \in ds /\ \A e \in ds : ~StrLess(d, e)

\* C23: the sorted_dates returned by parse_excel are strictly ascending,
\* each canonical date of the header exactly once, also when two header cells
\* normalize to one date; date_count is the number of distinct canonical
\* dates; date_range_start and date_range_end and the metrics_period_start
\* and metrics_period_end of every keyword record are the least and the
\* greatest canonical date.
C23_StrictlyAscending ==
    pc = "returned" =>
        /\ \A i \in 1..(Len(sorted_dates) - 1) : StrLess(sorted_dates[i], sorted_dates[i + 1])
        /\ Elements(sorted_dates) = Elements(DaysOf(primary_data[1]))
        /\ stats.date_count = Cardinality(Elements(sorted_dates))
        /\ stats.date_range_start # None
        /\ IsMinimum(stats.date_range_start[1], Elements(sorted_dates))
        /\ stats.date_range_end # None
        /\ IsMaximum(stats.date_range_end[1], Elements(sorted_dates))
        /\ \A j \in 1..Len(keyword_records) :
              /\ keyword_records[j].metrics_period_start = stats.date_range_start
              /\ keyword_records[j].metrics_period_end = stats.date_range_end

\* ------------------------------------------------------------------------
\* parse_excel: the stats returned
\* ------------------------------------------------------------------------

\* The measurements of ranks that have a rank or an out-of-range mark of
\* the sheet.
WithFacet(ranks, sheet) ==
    {k \in DOMAIN ranks :
        IF sheet = "Organic"
          THEN ranks[k].organic_rank # None \/ ranks[k].organic_out_of_range
          ELSE ranks[k].sponsored_rank # None \/ ranks[k].sponsored_out_of_range}

\* C24: on every return of parse_excel keyword_count is the number of
\* keyword records returned and keyword_count + keyword_filtered is
\* keyword_total_parsed; rank_entries is the number of entries of the
\* merged_ranks returned; organic_ranks and sponsored_ranks are the numbers
\* of returned measurements with an organic and with a sponsored facet.
C24_StatsConsistent ==
    pc = "returned" =>
        /\ stats.keyword_count = Len(keyword_records)
        /\ stats.keyword_count + stats.keyword_filtered = stats.keyword_total_parsed
        /\ stats.rank_entries = Cardinality(DOMAIN merged_ranks)
        /\ stats.organic_ranks = Cardinality(WithFacet(merged_ranks, "Organic"))
        /\ stats.sponsored_ranks = Cardinality(WithFacet(merged_ranks, "Sponsored"))

====
